---- MODULE Spec2Model ----
(***************************************************************************)
(* Model of wgtechlabs/container-build-flow-action.                        *)
(*                                                                         *)
(* scripts/detect-build-flow.sh: main() validates the environment,         *)
(* resolves the image names, classifies the trigger event into a build     *)
(* flow and derives the container tags, which it appends to GITHUB_OUTPUT. *)
(*                                                                         *)
(* Shell strings are sequences of one-character strings, so that prefix    *)
(* removal, substring extraction, substitution and regular-expression      *)
(* matching are computed character by character as bash computes them.     *)
(***************************************************************************)
EXTENDS Integers, Sequences, FiniteSets, TLC

VARIABLES env, pc, DOCKERHUB_IMAGE, GHCR_IMAGE, flow_type, short_sha, full_tag, rule, output,
          invocation,
          trivy_baseline_results, trivy_image_results, trivy_comparison, differ_state,
          differ_script, trivy_scan_summary, summary_outputs, summarizer_state,
          renderer_env, renderer_pc, renderer_script, context, open_prs, pr_comments,
          token_user_type, renderer_flow, commentBody, prNumber, botComment, comment_posted,
          renderer_run, renderer_pc_2, commentBody_2, prNumber_2, botComment_2,
          comment_posted_2

vars == <<env, pc, DOCKERHUB_IMAGE, GHCR_IMAGE, flow_type, short_sha, full_tag, rule, output,
          invocation,
          trivy_baseline_results, trivy_image_results, trivy_comparison, differ_state,
          differ_script, trivy_scan_summary, summary_outputs, summarizer_state,
          renderer_env, renderer_pc, renderer_script, context, open_prs, pr_comments,
          token_user_type, renderer_flow, commentBody, prNumber, botComment, comment_posted,
          renderer_run, renderer_pc_2, commentBody_2, prNumber_2, botComment_2,
          comment_posted_2>>

classifierVars ==
    <<env, pc, DOCKERHUB_IMAGE, GHCR_IMAGE, flow_type, short_sha, full_tag, rule, output,
      invocation>>

scanVars ==
    <<trivy_baseline_results, trivy_image_results, trivy_comparison, differ_state,
      differ_script, trivy_scan_summary, summary_outputs, summarizer_state>>

\* the locals of a second run of the renderer for the same pull request
secondRunVars ==
    <<renderer_pc_2, commentBody_2, prNumber_2, botComment_2, comment_posted_2>>

rendererVars ==
    <<renderer_env, renderer_pc, renderer_script, context, open_prs, pr_comments,
      token_user_type, renderer_flow, commentBody, prNumber, botComment, comment_posted,
      renderer_run, secondRunVars>>

----------------------------------------------------------------------------
(* Bounds of the exhaustive version-string generator.                      *)

MaxCore == 5

MaxTail == 3

----------------------------------------------------------------------------
(* Character classes of the regular expressions.                           *)

Digit == {"0", "1", "2", "3", "4", "5", "6", "7", "8", "9"}

Alnum == Digit \cup {"a", "b", "c", "d", "e", "f", "g", "h", "i", "j", "k", "l", "m",
                     "n", "o", "p", "q", "r", "s", "t", "u", "v", "w", "x", "y", "z",
                     "A", "B", "C", "D", "E", "F", "G", "H", "I", "J", "K", "L", "M",
                     "N", "O", "P", "Q", "R", "S", "T", "U", "V", "W", "X", "Y", "Z"}

SuffixChar == Alnum \cup {".", "-"}

----------------------------------------------------------------------------
(* String literals of the script.                                          *)

Empty == << >>

RefsTags == <<"r", "e", "f", "s", "/", "t", "a", "g", "s", "/">>

RefsHeads == <<"r", "e", "f", "s", "/", "h", "e", "a", "d", "s", "/">>

Latest == <<"l", "a", "t", "e", "s", "t">>

GhcrIo == <<"g", "h", "c", "r", ".", "i", "o", "/">>

FlowName(f) ==
    CASE f = "pr" -> <<"p", "r">>
      [] f = "dev" -> <<"d", "e", "v">>
      [] f = "patch" -> <<"p", "a", "t", "c", "h">>
      [] f = "staging" -> <<"s", "t", "a", "g", "i", "n", "g">>
      [] f = "release" -> <<"r", "e", "l", "e", "a", "s", "e">>
      [] f = "wip" -> <<"w", "i", "p">>
      [] OTHER -> Empty

----------------------------------------------------------------------------
(* Bash string primitives.                                                 *)

HasPrefix(s, w) == Len(s) >= Len(w) /\ SubSeq(s, 1, Len(w)) = w

\* ${s#w}: remove the literal prefix w when s starts with it
StripPrefix(s, w) == IF HasPrefix(s, w) THEN SubSeq(s, Len(w) + 1, Len(s)) ELSE s

\* ${s##*/}: remove the longest prefix that ends in a slash
StripToLastSlash(s) ==
    LET slashes == {i \in 1..Len(s) : s[i] = "/"}
    IN  IF slashes = {} THEN s
        ELSE LET last == CHOOSE i \in slashes : \A j \in slashes : j <= i
             IN  SubSeq(s, last + 1, Len(s))

Min(a, b) == IF a <= b THEN a ELSE b

\* Regular-expression matching over positions: a position is the index of
\* the next unread character; each operator maps the set of positions where
\* the match may stand to the set of positions after the next element.
ReLit(c, s, P) == {p + 1 : p \in {q \in P : q <= Len(s) /\ s[q] = c}}

RePlus(C, s, P) ==
    {j \in 2..(Len(s) + 1) : \E p \in P : p < j /\ \A k \in p..(j - 1) : s[k] \in C}

----------------------------------------------------------------------------
(* Helper functions of the script.                                         *)


\* one character too many
get_short_sha_eight(sha) == SubSeq(sha, 1, Min(8, Len(sha)))

get_short_sha(sha) == SubSeq(sha, 1, Min(7, Len(sha)))

get_repo_name(repository) == StripToLastSlash(repository)

\* positions after ^v?[0-9]+\.[0-9]+\.[0-9]+
ReVersionCore(s, optionalV) ==
    LET p0 == {1}
        p1 == IF optionalV THEN p0 \cup ReLit("v", s, p0) ELSE p0
        p2 == RePlus(Digit, s, p1)
        p3 == ReLit(".", s, p2)
        p4 == RePlus(Digit, s, p3)
        p5 == ReLit(".", s, p4)
    IN  RePlus(Digit, s, p5)


\* the pattern without its closing $ anchor
is_semver_tag_unanchored(ref) ==
    LET p6 == ReVersionCore(ref, TRUE)
        p7 == p6 \cup RePlus(SuffixChar, ref, ReLit("-", ref, p6))
        p8 == p7 \cup RePlus(SuffixChar, ref, ReLit("+", ref, p7))
    IN  p8 # {}

is_semver_tag(ref) ==
    LET p6 == ReVersionCore(ref, TRUE)
        p7 == p6 \cup RePlus(SuffixChar, ref, ReLit("-", ref, p6))
        p8 == p7 \cup RePlus(SuffixChar, ref, ReLit("+", ref, p7))
    IN  (Len(ref) + 1) \in p8

\* the version on success, NoVersion when the function returns 1
NoVersion == <<"?">>

extract_semver(ref) ==
    LET r == StripPrefix(ref, RefsTags)
    IN  IF is_semver_tag(r) THEN r ELSE NoVersion


\* the version used as it is
sanitize_docker_tag_identity(tag) == tag

sanitize_docker_tag(tag) == [i \in 1..Len(tag) |-> IF tag[i] = "+" THEN "-" ELSE tag[i]]

----------------------------------------------------------------------------
(* detect_build_flow, first half: the flow detection algorithm.  The       *)
(* result records the flow type, the short identifier (the short SHA, or   *)
(* the version once a release overrides it) and the number of the branch   *)
(* of the if/elif chain that was taken.                                    *)


\* the tag never checked: every tag is released under its own name
TagRule_unchecked(tag_name, sha, n) ==
    [flow_type |-> "release", short_sha |-> tag_name, rule |-> n]

TagRule(tag_name, sha, n) ==
    IF is_semver_tag(tag_name)
    THEN [flow_type |-> "release", short_sha |-> extract_semver(tag_name), rule |-> n]
    ELSE [flow_type |-> "wip", short_sha |-> get_short_sha(sha), rule |-> n]


\* the source branch of a pull request to main not examined
PullRequestRule_no_head(e) ==
    LET base_branch == e.GITHUB_BASE_REF
    IN  IF base_branch = e.DEV_BRANCH THEN "pr"
        ELSE IF base_branch = e.MAIN_BRANCH THEN "patch"
        ELSE "wip"

\* the main-branch cases tested before the dev-branch case
PullRequestRule_main_first(e) ==
    LET base_branch == e.GITHUB_BASE_REF
        head_branch == e.GITHUB_HEAD_REF
    IN  IF base_branch = e.MAIN_BRANCH /\ head_branch = e.DEV_BRANCH THEN "dev"
        ELSE IF base_branch = e.MAIN_BRANCH THEN "patch"
        ELSE IF base_branch = e.DEV_BRANCH THEN "pr"
        ELSE "wip"

PullRequestRule(e) ==
    LET base_branch == e.GITHUB_BASE_REF
        head_branch == e.GITHUB_HEAD_REF
    IN  IF base_branch = e.DEV_BRANCH THEN "pr"
        ELSE IF base_branch = e.MAIN_BRANCH /\ head_branch = e.DEV_BRANCH THEN "dev"
        ELSE IF base_branch = e.MAIN_BRANCH THEN "patch"
        ELSE "wip"


\* the dev and main outcomes of a push exchanged
PushRule_swapped(e) ==
    LET branch == StripPrefix(e.GITHUB_REF, RefsHeads)
    IN  IF branch = e.DEV_BRANCH THEN "staging"
        ELSE IF branch = e.MAIN_BRANCH THEN "dev"
        ELSE "wip"

PushRule(e) ==
    LET branch == StripPrefix(e.GITHUB_REF, RefsHeads)
    IN  IF branch = e.DEV_BRANCH THEN "dev"
        ELSE IF branch = e.MAIN_BRANCH THEN "staging"
        ELSE "wip"


\* the pull-request rule tried before the tag rules
flow_detection_pr_first(e) ==
    LET sha == e.GITHUB_SHA
    IN  IF e.GITHUB_EVENT_NAME = "pull_request"
           \/ e.GITHUB_EVENT_NAME = "pull_request_target"
           \/ (e.GITHUB_EVENT_NAME = "release" /\ e.GITHUB_BASE_REF # Empty)
        THEN [flow_type |-> PullRequestRule(e), short_sha |-> get_short_sha(sha), rule |-> 4]
        ELSE IF e.GITHUB_EVENT_NAME = "release"
        THEN TagRule(StripPrefix(e.GITHUB_REF, RefsTags), sha, 1)
        ELSE IF e.GITHUB_EVENT_NAME = "create" /\ e.GITHUB_REF_TYPE = "tag"
        THEN TagRule(e.GITHUB_REF_NAME, sha, 2)
        ELSE IF e.GITHUB_EVENT_NAME = "push" /\ HasPrefix(e.GITHUB_REF, RefsTags)
        THEN TagRule(StripPrefix(e.GITHUB_REF, RefsTags), sha, 3)
        ELSE IF e.GITHUB_EVENT_NAME = "push"
        THEN [flow_type |-> PushRule(e), short_sha |-> get_short_sha(sha), rule |-> 5]
        ELSE [flow_type |-> "wip", short_sha |-> get_short_sha(sha), rule |-> 6]

\* the final else branch missing: flow_type keeps its initial empty value
flow_detection_no_fallback(e) ==
    LET sha == e.GITHUB_SHA
    IN  IF e.GITHUB_EVENT_NAME = "release"
        THEN TagRule(StripPrefix(e.GITHUB_REF, RefsTags), sha, 1)
        ELSE IF e.GITHUB_EVENT_NAME = "create" /\ e.GITHUB_REF_TYPE = "tag"
        THEN TagRule(e.GITHUB_REF_NAME, sha, 2)
        ELSE IF e.GITHUB_EVENT_NAME = "push" /\ HasPrefix(e.GITHUB_REF, RefsTags)
        THEN TagRule(StripPrefix(e.GITHUB_REF, RefsTags), sha, 3)
        ELSE IF e.GITHUB_EVENT_NAME = "pull_request"
                \/ e.GITHUB_EVENT_NAME = "pull_request_target"
        THEN [flow_type |-> PullRequestRule(e), short_sha |-> get_short_sha(sha), rule |-> 4]
        ELSE IF e.GITHUB_EVENT_NAME = "push"
        THEN [flow_type |-> PushRule(e), short_sha |-> get_short_sha(sha), rule |-> 5]
        ELSE [flow_type |-> "", short_sha |-> get_short_sha(sha), rule |-> 6]

flow_detection(e) ==
    LET sha == e.GITHUB_SHA
    IN  IF e.GITHUB_EVENT_NAME = "release"
        THEN TagRule(StripPrefix(e.GITHUB_REF, RefsTags), sha, 1)
        ELSE IF e.GITHUB_EVENT_NAME = "create" /\ e.GITHUB_REF_TYPE = "tag"
        THEN TagRule(e.GITHUB_REF_NAME, sha, 2)
        ELSE IF e.GITHUB_EVENT_NAME = "push" /\ HasPrefix(e.GITHUB_REF, RefsTags)
        THEN TagRule(StripPrefix(e.GITHUB_REF, RefsTags), sha, 3)
        ELSE IF e.GITHUB_EVENT_NAME = "pull_request"
                \/ e.GITHUB_EVENT_NAME = "pull_request_target"
        THEN [flow_type |-> PullRequestRule(e), short_sha |-> get_short_sha(sha), rule |-> 4]
        ELSE IF e.GITHUB_EVENT_NAME = "push"
        THEN [flow_type |-> PushRule(e), short_sha |-> get_short_sha(sha), rule |-> 5]
        ELSE [flow_type |-> "wip", short_sha |-> get_short_sha(sha), rule |-> 6]

----------------------------------------------------------------------------
(* detect_build_flow, second half: tag generation.  full_tag is the        *)
(* comma-joined tag list exactly as it is written to the output.           *)

Comma == <<",">>

Dot == <<".">>

Hyphen == <<"-">>


\* a hyphen anywhere in the version taken for a pre-release suffix
IsPreRelease_any_hyphen(version_no_v) ==
    \E i \in 1..Len(version_no_v) : version_no_v[i] = "-"

\* [[ "$version_no_v" =~ ^[0-9]+\.[0-9]+\.[0-9]+-[a-zA-Z0-9.-]+ ]]
IsPreRelease(version_no_v) ==
    RePlus(SuffixChar, version_no_v,
           ReLit("-", version_no_v, ReVersionCore(version_no_v, FALSE))) # {}

\* [[ "$version_no_v" =~ ^([0-9]+)\.([0-9]+)\.([0-9]+) ]]: the pairs
\* (end of group 1, end of group 2) of every way the pattern matches
CoreMatches(version_no_v) ==
    LET s == version_no_v
    IN  UNION {{<<i, j>> : j \in {k \in RePlus(Digit, s, ReLit(".", s, {i})) :
                                     RePlus(Digit, s, ReLit(".", s, {k})) # {}}} :
               i \in RePlus(Digit, s, {1})}

\* "${major}.${minor}" from BASH_REMATCH[1] and BASH_REMATCH[2]
MajorMinor(version_no_v) ==
    LET m == CHOOSE x \in CoreMatches(version_no_v) : TRUE
    IN  SubSeq(version_no_v, 1, m[1] - 1) \o Dot \o SubSeq(version_no_v, m[1] + 1, m[2] - 1)


\* latest appended before major.minor, and without the prefix and suffix
tag_generation_latest_first(flow, sid, prefix, suffix) ==
    IF flow = "release"
    THEN LET sanitized_version == sanitize_docker_tag(sid)
             primary == prefix \o sanitized_version \o suffix
             version_no_v == StripPrefix(sid, <<"v">>)
             additional_tags ==
                 IF ~IsPreRelease(version_no_v) /\ CoreMatches(version_no_v) # {}
                 THEN Latest \o Comma \o prefix \o MajorMinor(version_no_v) \o suffix
                 ELSE Empty
         IN  IF additional_tags # Empty
             THEN primary \o Comma \o additional_tags
             ELSE primary
    ELSE prefix \o FlowName(flow) \o Hyphen \o sid \o suffix

\* the extra tags of a release appended without the pre-release check
tag_generation_always_latest(flow, sid, prefix, suffix) ==
    IF flow = "release"
    THEN LET sanitized_version == sanitize_docker_tag(sid)
             primary == prefix \o sanitized_version \o suffix
         IN  primary \o Comma \o prefix \o Latest \o suffix
    ELSE prefix \o FlowName(flow) \o Hyphen \o sid \o suffix

tag_generation(flow, sid, prefix, suffix) ==
    IF flow = "release"
    THEN LET sanitized_version == sanitize_docker_tag(sid)
             primary == prefix \o sanitized_version \o suffix
             version_no_v == StripPrefix(sid, <<"v">>)
             additional_tags ==
                 IF ~IsPreRelease(version_no_v) /\ CoreMatches(version_no_v) # {}
                 THEN prefix \o MajorMinor(version_no_v) \o suffix
                      \o Comma \o prefix \o Latest \o suffix
                 ELSE Empty
         IN  IF additional_tags # Empty
             THEN primary \o Comma \o additional_tags
             ELSE primary
    ELSE prefix \o FlowName(flow) \o Hyphen \o sid \o suffix

detect_build_flow(e) ==
    LET d == flow_detection(e)
    IN  [flow_type |-> d.flow_type,
         short_sha |-> d.short_sha,
         rule |-> d.rule,
         full_tag |-> tag_generation(d.flow_type, d.short_sha, e.TAG_PREFIX, e.TAG_SUFFIX)]

----------------------------------------------------------------------------
(* The environment of one run: the GitHub context and the action inputs,   *)
(* read once into shell variables (an absent value is the empty string).   *)

N_main == <<"m", "a", "i", "n">>

N_dev == <<"d", "e", "v">>

N_feat == <<"f", "e", "a", "t">>

V_stable == <<"v", "1", ".", "2", ".", "3">>

V_plain == <<"1", "0", ".", "2", "0", ".", "3">>

V_pre == <<"v", "2", ".", "0", ".", "0", "-", "r", "c", ".", "1">>

V_build == <<"1", ".", "0", ".", "0", "+", "a", "-", "b">>

V_both == <<"v", "1", ".", "0", ".", "0", "-", "a", "+", "b">>

V_short == <<"1", ".", "2">>

Sha3 == <<"a", "b", "c">>

Sha7 == <<"0", "1", "2", "3", "4", "5", "6">>

Sha10 == <<"f", "e", "d", "c", "b", "a", "9", "8", "7", "6">>

Repo == <<"o", "/", "r">>

Owner == <<"o">>

Events == {"release", "create", "push", "pull_request", "pull_request_target",
           "workflow_dispatch"}

BranchRefs == {RefsHeads \o n : n \in {N_main, N_dev, N_feat, V_stable}}

TagRefs == {RefsTags \o n : n \in {V_stable, V_pre, V_build, V_short, N_dev}}

\* the fields every slice of inputs fixes unless it varies them
DefaultEnv ==
    [GITHUB_EVENT_NAME |-> "push", GITHUB_REF |-> RefsHeads \o N_main,
     GITHUB_REF_TYPE |-> "branch", GITHUB_REF_NAME |-> N_main,
     GITHUB_SHA |-> Sha10, GITHUB_REPOSITORY |-> Repo,
     GITHUB_REPOSITORY_OWNER |-> Owner, GITHUB_OUTPUT |-> TRUE,
     GITHUB_HEAD_REF |-> Empty, GITHUB_BASE_REF |-> Empty,
     MAIN_BRANCH |-> N_main, DEV_BRANCH |-> N_dev,
     TAG_PREFIX |-> Empty, TAG_SUFFIX |-> Empty, IMAGE_NAME |-> Empty]

\* every event shape against every branch configuration
FlowEnvs ==
    {[DefaultEnv EXCEPT !.GITHUB_EVENT_NAME = ev, !.GITHUB_REF = ref,
                        !.GITHUB_REF_TYPE = rt, !.GITHUB_REF_NAME = rn,
                        !.GITHUB_BASE_REF = b, !.GITHUB_HEAD_REF = h,
                        !.MAIN_BRANCH = c[1], !.DEV_BRANCH = c[2]] :
        ev \in Events, ref \in BranchRefs \cup TagRefs, rt \in {"branch", "tag"},
        rn \in {V_stable, V_short, N_feat},
        b \in {Empty, N_main, N_dev, N_feat}, h \in {N_main, N_dev, N_feat},
        c \in {<<N_main, N_dev>>, <<N_dev, N_main>>, <<N_main, N_main>>}}

\* every tag shape against every commit SHA, prefix and suffix
TagEnvs ==
    {[DefaultEnv EXCEPT !.GITHUB_EVENT_NAME = ev, !.GITHUB_REF = ref,
                        !.GITHUB_REF_TYPE = "tag", !.GITHUB_REF_NAME = rn,
                        !.GITHUB_BASE_REF = N_dev, !.GITHUB_HEAD_REF = N_feat,
                        !.GITHUB_SHA = sha, !.TAG_PREFIX = pre, !.TAG_SUFFIX = suf] :
        ev \in {"release", "create", "push", "pull_request"},
        ref \in BranchRefs \cup TagRefs,
        rn \in {V_plain, V_both, V_build, N_feat},
        sha \in {Sha3, Sha7, Sha10},
        pre \in {Empty, <<"p", "-">>, <<"x", "+">>},
        suf \in {Empty, <<"-", "s">>, <<"+", "s">>}}

\* every combination of present and absent required context
ContextEnvs ==
    {[DefaultEnv EXCEPT !.GITHUB_SHA = sha, !.GITHUB_REPOSITORY = repo,
                        !.GITHUB_REPOSITORY_OWNER = owner, !.GITHUB_OUTPUT = out,
                        !.IMAGE_NAME = img] :
        sha \in {Empty, Sha10}, repo \in {Empty, Repo}, owner \in {Empty, Owner},
        out \in BOOLEAN, img \in {Empty, <<"i", "m", "g">>}}

Strs(A, n) == UNION {[1..k -> A] : k \in 0..n}

\* v? then up to MaxCore digits and dots, then up to MaxTail suffix characters
VersionStrings ==
    {v \o c \o t : v \in {Empty, <<"v">>}, c \in Strs({"1", "."}, MaxCore),
                   t \in Strs({"-", "+", ".", "a"}, MaxTail)}

\* tag-creation events over the exhaustive version strings
VersionEnvs ==
    {[DefaultEnv EXCEPT !.GITHUB_EVENT_NAME = "create", !.GITHUB_REF_TYPE = "tag",
                        !.GITHUB_REF_NAME = rn] : rn \in VersionStrings}

----------------------------------------------------------------------------
(* The vulnerability scripts: JavaScript values.  A string is a sequence   *)
(* of characters, an absent property is Undefined, a Map is the sequence   *)
(* of its entries in insertion order.                                      *)

Undefined == <<"undefined">>

LowerLetters == <<"a", "b", "c", "d", "e", "f", "g", "h", "i", "j", "k", "l", "m", "n", "o", "p", "q", "r", "s", "t", "u", "v", "w", "x", "y", "z">>

UpperLetters == <<"A", "B", "C", "D", "E", "F", "G", "H", "I", "J", "K", "L", "M", "N", "O", "P", "Q", "R", "S", "T", "U", "V", "W", "X", "Y", "Z">>

LetterIndex(letters, c) == CHOOSE k \in 1..Len(letters) : letters[k] = c

IsLetterOf(letters, c) == \E k \in 1..Len(letters) : letters[k] = c

\* String.prototype.toUpperCase
toUpperCase(s) ==
    [i \in 1..Len(s) |->
        IF IsLetterOf(LowerLetters, s[i])
        THEN UpperLetters[LetterIndex(LowerLetters, s[i])] ELSE s[i]]

\* String.prototype.toLowerCase
toLowerCase(s) ==
    [i \in 1..Len(s) |->
        IF IsLetterOf(UpperLetters, s[i])
        THEN LowerLetters[LetterIndex(UpperLetters, s[i])] ELSE s[i]]

\* x ?? d: d replaces an absent value only
Nullish(x, d) == IF x = Undefined THEN d ELSE x

\* x || d: d replaces every falsy value, the empty string included
Falsy(x, d) == IF x = Undefined \/ x = Empty THEN d ELSE x

S_UNKNOWN == <<"U", "N", "K", "N", "O", "W", "N">>

S_unknown == <<"u", "n", "k", "n", "o", "w", "n">>

S_critical == <<"c", "r", "i", "t", "i", "c", "a", "l">>

S_high == <<"h", "i", "g", "h">>

S_medium == <<"m", "e", "d", "i", "u", "m">>

S_low == <<"l", "o", "w">>

S_total == <<"t", "o", "t", "a", "l">>

MapHas(m, k) == \E i \in 1..Len(m) : m[i].key = k

MapGet(m, k) == m[CHOOSE i \in 1..Len(m) : m[i].key = k].value

\* Map.prototype.set: a known key keeps its place and takes the new value
MapSet_keep_first(m, k, v) ==
    IF MapHas(m, k) THEN m ELSE Append(m, [key |-> k, value |-> v])

MapSet(m, k, v) ==
    IF MapHas(m, k)
    THEN [i \in 1..Len(m) |-> IF m[i].key = k THEN [key |-> k, value |-> v] ELSE m[i]]
    ELSE Append(m, [key |-> k, value |-> v])

\* Array.from(map.values())
MapValues(m) == [i \in 1..Len(m) |-> m[i].value]

RECURSIVE MapFromEntries(_)
\* the Map after set(key, value) for each entry in turn
MapFromEntries(es) ==
    IF es = << >> THEN << >>
    ELSE LET last == es[Len(es)]
         IN  MapSet(MapFromEntries(SubSeq(es, 1, Len(es) - 1)), last.key, last.value)

RECURSIVE AllVulnerabilities(_)
\* the vulnerabilities of the targets in document order; a target without
\* a Vulnerabilities list contributes none
AllVulnerabilities(targets) ==
    IF targets = << >> THEN << >>
    ELSE (IF targets[1].hasVulnerabilities THEN targets[1].Vulnerabilities ELSE << >>)
         \o AllVulnerabilities(Tail(targets))

\* results.Results ?? [], flattened
ScannedVulnerabilities(results) ==
    IF results.hasResults THEN AllVulnerabilities(results.Results) ELSE << >>

\* the key and the record stored for one vulnerability (generate-comparison.ts)
ProcessedVulnerability_ts(vuln) ==
    LET vulnId == Nullish(vuln.VulnerabilityID, S_UNKNOWN)
        pkgName == Nullish(vuln.PkgName, S_unknown)
    IN  [key |-> vulnId \o Hyphen \o pkgName,
         value |-> [id |-> vulnId,
                    package |-> pkgName,
                    version |-> Nullish(vuln.InstalledVersion, Empty),
                    severity |-> toUpperCase(Nullish(vuln.Severity, S_UNKNOWN)),
                    title |-> Nullish(vuln.Title, Empty),
                    description |-> Nullish(vuln.Description, Empty),
                    fixedVersion |-> Nullish(vuln.FixedVersion, Empty)]]

\* the key and the record stored for one vulnerability (generate-comparison.js)
ProcessedVulnerability_js(vuln) ==
    [key |-> Falsy(vuln.VulnerabilityID, S_UNKNOWN) \o Hyphen \o Falsy(vuln.PkgName, S_unknown),
     value |-> [id |-> Falsy(vuln.VulnerabilityID, S_UNKNOWN),
                package |-> Falsy(vuln.PkgName, S_unknown),
                version |-> Falsy(vuln.InstalledVersion, Empty),
                severity |-> toUpperCase(Falsy(vuln.Severity, S_UNKNOWN)),
                title |-> Falsy(vuln.Title, Empty),
                description |-> Falsy(vuln.Description, Empty),
                fixedVersion |-> Falsy(vuln.FixedVersion, Empty)]]

extractVulnerabilities_ts(results) ==
    LET vulns == ScannedVulnerabilities(results)
    IN  MapFromEntries([i \in 1..Len(vulns) |-> ProcessedVulnerability_ts(vulns[i])])

extractVulnerabilities_js(results) ==
    LET vulns == ScannedVulnerabilities(results)
    IN  MapFromEntries([i \in 1..Len(vulns) |-> ProcessedVulnerability_js(vulns[i])])

ZeroCounts == [critical |-> 0, high |-> 0, medium |-> 0, low |-> 0, unknown |-> 0, total |-> 0]

\* the property of the counts object a lower-cased severity names, if any
CountsProperty(severity) ==
    CASE severity = S_critical -> "critical"
      [] severity = S_high -> "high"
      [] severity = S_medium -> "medium"
      [] severity = S_low -> "low"
      [] severity = S_unknown -> "unknown"
      [] severity = S_total -> "total"
      [] OTHER -> "none"

Increment(counts, property) == [counts EXCEPT ![property] = @ + 1]

RECURSIVE countBySeverity_ts(_)
\* switch on the lower-cased severity, default: unknown; then total++
countBySeverity_ts(vulnerabilities) ==
    IF vulnerabilities = << >> THEN ZeroCounts
    ELSE LET n == Len(vulnerabilities)
             counts == countBySeverity_ts(SubSeq(vulnerabilities, 1, n - 1))
             severity == toLowerCase(vulnerabilities[n].severity)
             bucket == IF CountsProperty(severity) \in {"critical", "high", "medium", "low"}
                       THEN CountsProperty(severity) ELSE "unknown"
         IN  Increment(Increment(counts, bucket), "total")

RECURSIVE countBySeverity_js(_)
\* counts[severity]++ when counts has a property of that name, else
\* unknown++; then total++
countBySeverity_js(vulnerabilities) ==
    IF vulnerabilities = << >> THEN ZeroCounts
    ELSE LET n == Len(vulnerabilities)
             counts == countBySeverity_js(SubSeq(vulnerabilities, 1, n - 1))
             severity == toLowerCase(vulnerabilities[n].severity)
             property == IF CountsProperty(severity) # "none"
                         THEN CountsProperty(severity) ELSE "unknown"
         IN  Increment(Increment(counts, property), "total")

\* currentVulns entries whose key baselineVulns lacks
NewVulns(baselineVulns, currentVulns) ==
    SelectSeq(currentVulns, LAMBDA e : ~MapHas(baselineVulns, e.key))

\* baselineVulns entries whose key currentVulns lacks
FixedVulns(baselineVulns, currentVulns) ==
    SelectSeq(baselineVulns, LAMBDA e : ~MapHas(currentVulns, e.key))

\* every current entry reported again
UnchangedVulns_all_current(baselineVulns, currentVulns) == currentVulns

\* only entries whose record is the same on both sides
UnchangedVulns_same_record(baselineVulns, currentVulns) ==
    SelectSeq(currentVulns, LAMBDA e : /\ MapHas(baselineVulns, e.key)
                                       /\ MapGet(baselineVulns, e.key) = e.value)

\* the baseline entries whose key currentVulns has: the old record is kept
UnchangedVulns_baseline_record(baselineVulns, currentVulns) ==
    SelectSeq(baselineVulns, LAMBDA e : MapHas(currentVulns, e.key))

\* currentVulns entries whose key baselineVulns has; the current record is kept
UnchangedVulns(baselineVulns, currentVulns) ==
    SelectSeq(currentVulns, LAMBDA e : MapHas(baselineVulns, e.key))

Section(vulns) == [total |-> Len(vulns), vulnerabilities |-> MapValues(vulns)]

CountedSection(vulns, counts) ==
    [total |-> Len(vulns), counts |-> counts, vulnerabilities |-> MapValues(vulns)]

\* the report written when no comparison is made
Unavailable(message) == [comparison_available |-> FALSE, message |-> message]

\* the current file tested before the baseline file
UnavailableMessage_current_first(baseline, current) ==
    IF current.kind = "absent" THEN "Current scan results not available"
    ELSE IF baseline.kind = "absent" THEN "Baseline scan results not available"
    ELSE IF baseline.kind = "unparseable" \/ current.kind = "unparseable"
    THEN "Error: Unexpected token in JSON"
    ELSE ""

\* why no comparison is made: the existsSync tests in their order, then the
\* message of the exception caught from JSON.parse; "" when both files parse
\* a document without a Results list taken for a failed scan
UnavailableMessage_requires_results(baseline, current) ==
    IF baseline.kind = "absent" THEN "Baseline scan results not available"
    ELSE IF current.kind = "absent" THEN "Current scan results not available"
    ELSE IF baseline.kind = "unparseable" \/ current.kind = "unparseable"
    THEN "Error: Unexpected token in JSON"
    ELSE IF ~baseline.hasResults \/ ~current.hasResults
    THEN "Error: results.Results is not iterable"
    ELSE ""

UnavailableMessage(baseline, current) ==
    IF baseline.kind = "absent" THEN "Baseline scan results not available"
    ELSE IF current.kind = "absent" THEN "Current scan results not available"
    ELSE IF baseline.kind = "unparseable" \/ current.kind = "unparseable"
    THEN "Error: Unexpected token in JSON"
    ELSE ""

\* the content of trivy-comparison.json (generate-comparison.ts)
generateComparison_ts(baseline, current) ==
    IF UnavailableMessage(baseline, current) # ""
    THEN Unavailable(UnavailableMessage(baseline, current))
    ELSE LET baselineVulns == extractVulnerabilities_ts(baseline)
             currentVulns == extractVulnerabilities_ts(current)
             newVulns == NewVulns(baselineVulns, currentVulns)
             fixedVulns == FixedVulns(baselineVulns, currentVulns)
             unchangedVulns == UnchangedVulns(baselineVulns, currentVulns)
         IN  [comparison_available |-> TRUE,
              baseline |-> Section(baselineVulns),
              current |-> Section(currentVulns),
              new |-> CountedSection(newVulns, countBySeverity_ts(MapValues(newVulns))),
              fixed |-> CountedSection(fixedVulns, countBySeverity_ts(MapValues(fixedVulns))),
              unchanged |-> CountedSection(unchangedVulns,
                                           countBySeverity_ts(MapValues(unchangedVulns)))]

\* the content of trivy-comparison.json (generate-comparison.js)
generateComparison_js(baseline, current) ==
    IF UnavailableMessage(baseline, current) # ""
    THEN Unavailable(UnavailableMessage(baseline, current))
    ELSE LET baselineVulns == extractVulnerabilities_js(baseline)
             currentVulns == extractVulnerabilities_js(current)
             newVulns == NewVulns(baselineVulns, currentVulns)
             fixedVulns == FixedVulns(baselineVulns, currentVulns)
             unchangedVulns == UnchangedVulns(baselineVulns, currentVulns)
         IN  [comparison_available |-> TRUE,
              baseline |-> Section(baselineVulns),
              current |-> Section(currentVulns),
              new |-> CountedSection(newVulns, countBySeverity_js(MapValues(newVulns))),
              fixed |-> CountedSection(fixedVulns, countBySeverity_js(MapValues(fixedVulns))),
              unchanged |-> CountedSection(unchangedVulns,
                                           countBySeverity_js(MapValues(unchangedVulns)))]

NotWritten == [written |-> FALSE]

Written(content) == [written |-> TRUE, content |-> content]

NoOutputs == [set |-> FALSE]

\* the six core.setOutput calls
Outputs(completed, counts) ==
    [set |-> TRUE, completed |-> completed, total |-> counts.total,
     critical |-> counts.critical, high |-> counts.high,
     medium |-> counts.medium, low |-> counts.low]

Summary(completed, counts) ==
    [completed |-> completed, total |-> counts.total, critical |-> counts.critical,
     high |-> counts.high, medium |-> counts.medium, low |-> counts.low,
     unknown |-> counts.unknown]

RECURSIVE SeverityCounts(_)
\* the switch of parseTrivyResults over every scanned vulnerability
SeverityCounts(vulns) ==
    IF vulns = << >> THEN ZeroCounts
    ELSE LET n == Len(vulns)
             counts == SeverityCounts(SubSeq(vulns, 1, n - 1))
             severity == toUpperCase(Nullish(vulns[n].Severity, S_UNKNOWN))
             bucket == CASE severity = toUpperCase(S_critical) -> "critical"
                         [] severity = toUpperCase(S_high) -> "high"
                         [] severity = toUpperCase(S_medium) -> "medium"
                         [] severity = toUpperCase(S_low) -> "low"
                         [] OTHER -> "unknown"
         IN  Increment(counts, bucket)

\* trivy-scan-summary.json and the step outputs after parseTrivyResults
parseTrivyResults(results) ==
    IF results.kind = "absent"
    THEN [file |-> Written(Summary(FALSE, ZeroCounts)), outputs |-> Outputs(FALSE, ZeroCounts)]
    ELSE IF results.kind = "unparseable"
    THEN [file |-> NotWritten, outputs |-> Outputs(FALSE, ZeroCounts)]
    ELSE LET tallied == SeverityCounts(ScannedVulnerabilities(results))
             counts == [tallied EXCEPT !.total = tallied.critical + tallied.high
                                          + tallied.medium + tallied.low + tallied.unknown]
         IN  [file |-> Written(Summary(TRUE, counts)), outputs |-> Outputs(TRUE, counts)]

----------------------------------------------------------------------------
(* Scan documents: the files trivy-baseline-results.json and               *)
(* trivy-image-results.json as the scanner or a failed step leaves them.   *)

MaxRecords == 3

MaxTallied == 2

Absent == [kind |-> "absent"]

Unparseable == [kind |-> "unparseable"]

\* {} : no Results property
NoResults == [kind |-> "json", hasResults |-> FALSE, Results |-> << >>]

Document(targets) == [kind |-> "json", hasResults |-> TRUE, Results |-> targets]

\* a target without a Vulnerabilities property
CleanTarget == [hasVulnerabilities |-> FALSE, Vulnerabilities |-> << >>]

Target(vulns) == [hasVulnerabilities |-> TRUE, Vulnerabilities |-> vulns]

Vulnerability(id, pkg, version, severity, title, description, fixed) ==
    [VulnerabilityID |-> id, PkgName |-> pkg, InstalledVersion |-> version,
     Severity |-> severity, Title |-> title, Description |-> description,
     FixedVersion |-> fixed]

Id_C1 == <<"C", "1">>

Id_C1a == <<"C", "1", "-", "a">>

Id_C2 == <<"C", "2">>

Id_C3 == <<"C", "3">>

Pkg_ab == <<"a", "-", "b">>

Pkg_b == <<"b">>

\* (C1, a-b) and (C1-a, b); the third is (C1, a-b) again with every other
\* attribute changed
KeyRecords ==
    {Vulnerability(Id_C1, Pkg_ab, <<"1">>, <<"C", "R", "I", "T", "I", "C", "A", "L">>, <<"t">>, Undefined,
                   Undefined),
     Vulnerability(Id_C1a, Pkg_b, <<"1">>, <<"h", "i", "g", "h">>, <<"t">>, Undefined, Undefined),
     Vulnerability(Id_C1, Pkg_ab, <<"2">>, <<"M", "e", "d", "i", "u", "m">>, <<"u">>, <<"d">>, <<"2">>)}

\* records that share no key with the key records
OtherRecords ==
    {Vulnerability(Id_C2, Pkg_b, <<"1">>, <<"L", "O", "W">>, <<"t">>, Undefined, <<"2">>),
     Vulnerability(Id_C3, Pkg_b, <<"1">>, S_high, <<"t">>, Undefined, Undefined)}

Severities ==
    {<<"C", "R", "I", "T", "I", "C", "A", "L">>, <<"H", "i", "g", "h">>, <<"m", "e", "d", "i", "u", "m">>, <<"L", "O", "W">>,
     S_UNKNOWN, <<"n", "o", "n", "e">>, S_total, Undefined}

\* every severity spelling under one identifier, two under another, a
\* record with no property at all and one whose properties are all empty
\* strings
SeverityRecords ==
    {Vulnerability(Id_C2, Pkg_b, <<"1">>, sev, <<"t">>, Undefined, Undefined) :
        sev \in Severities}
    \cup {Vulnerability(Id_C3, Pkg_b, <<"1">>, sev, <<"t">>, Undefined, Undefined) :
             sev \in {S_total, S_high}}
    \cup {Vulnerability(Undefined, Undefined, Undefined, Undefined, Undefined,
                        Undefined, Undefined),
          Vulnerability(Empty, Empty, Empty, Empty, Empty, Empty, Empty)}

\* the ways a scanner lays the vulnerabilities vs out in a document: all
\* in one target, or each in a target of its own after a clean target
Layouts(vs) ==
    IF vs = << >>
    THEN {NoResults, Document(<< >>), Document(<<CleanTarget>>), Document(<<Target(<< >>)>>)}
    ELSE {Document(<<Target(vs)>>),
          Document(<<CleanTarget>> \o [i \in 1..Len(vs) |-> Target(<<vs[i]>>)])}

\* the files that hold n of the records; a file that holds none may also
\* be missing or not be JSON
Files(records, n) ==
    (IF n = 0 THEN {Absent, Unparseable} ELSE {})
    \cup UNION {Layouts(vs) : vs \in [1..n -> records]}

\* baseline and current files over the key records, MaxRecords in all
KeyScans ==
    UNION {{<<b, c>> : b \in Files(KeyRecords, n[1]), c \in Files(KeyRecords, n[2])} :
              n \in {m \in (0..MaxRecords) \X (0..MaxRecords) : m[1] + m[2] <= MaxRecords}}

\* two records in the baseline against two in the current file, over keys
\* that differ
PartitionScans ==
    UNION {{<<b, c>> : b \in Layouts(<<r[1], r[2]>>), c \in Layouts(<<r[3], r[4]>>)} :
              r \in [1..4 -> OtherRecords \cup {CHOOSE k \in KeyRecords : TRUE}]}

\* a current file of up to MaxTallied severity records against an empty
\* baseline and against a baseline of one record
SeverityScans ==
    {<<b, c>> :
        b \in {Document(<< >>),
               Document(<<Target(<<Vulnerability(Id_C2, Pkg_b, <<"1">>, S_low, <<"t">>,
                                                 Undefined, Undefined)>>)>>)},
        c \in UNION {{Document(<<Target(vs)>>)} : vs \in Strs(SeverityRecords, MaxTallied)}}

----------------------------------------------------------------------------
(* The comment renderer: its configuration, the flow metadata and the     *)
(* comment body.                                                           *)

F_pr == <<"p", "r">>

F_dev == <<"d", "e", "v">>

F_patch == <<"p", "a", "t", "c", "h">>

F_wip == <<"w", "i", "p">>

F_staging == <<"s", "t", "a", "g", "i", "n", "g">>

F_release == <<"r", "e", "l", "e", "a", "s", "e">>

\* the own properties of the flowMetadata object
FlowMetadataKeys == {F_pr, F_dev, F_patch, F_wip, F_staging}

\* names every object inherits from Object.prototype
ObjectPrototypeKeys == {<<"c", "o", "n", "s", "t", "r", "u", "c", "t", "o", "r">>, <<"t", "o", "S", "t", "r", "i", "n", "g">>}

\* flowMetadata[key]: an own entry, an inherited member (a function, with
\* no emoji, title or description), or undefined
flowMetadata(key) ==
    CASE key = F_pr ->
           [kind |-> "entry", emoji |-> "wrench", title |-> "PR Build",
            description |-> "Feature development and testing"]
      [] key = F_dev ->
           [kind |-> "entry", emoji |-> "hammer and wrench", title |-> "Dev Build",
            description |-> "Development and testing"]
      [] key = F_patch ->
           [kind |-> "entry", emoji |-> "fire", title |-> "Patch Build",
            description |-> "Hotfix for production"]
      [] key = F_wip ->
           [kind |-> "entry", emoji |-> "high voltage", title |-> "WIP Build",
            description |-> "Work in progress experiment"]
      [] key = F_staging ->
           [kind |-> "entry", emoji |-> "rocket", title |-> "Staging Build",
            description |-> "Pre-production validation"]
      [] key \in ObjectPrototypeKeys -> [kind |-> "inherited"]
      [] OTHER -> [kind |-> "undefined"]

\* getEnv('BUILD_FLOW_TYPE', 'unknown')
buildFlowType_ts(e) == Nullish(e.BUILD_FLOW_TYPE, S_unknown)

\* process.env.BUILD_FLOW_TYPE || 'unknown'
buildFlowType_js(e) == Falsy(e.BUILD_FLOW_TYPE, S_unknown)

\* buildFlowType !== 'unknown' ? flowMetadata[buildFlowType] : flowMetadata.wip
flow_ts(buildFlowType) ==
    IF buildFlowType # S_unknown THEN flowMetadata(buildFlowType) ELSE flowMetadata(F_wip)

\* flowMetadata[buildFlowType] || flowMetadata.wip
flow_js(buildFlowType) ==
    IF flowMetadata(buildFlowType).kind # "undefined"
    THEN flowMetadata(buildFlowType) ELSE flowMetadata(F_wip)

Marker == "Container Build Complete"

\* ${flow.emoji}, ${flow.title}, ${flow.description} of a flow that is not undefined
Interpolated(flowEntry, property) ==
    IF flowEntry.kind = "entry" THEN flowEntry[property] ELSE "undefined"

RegistryDisplay(registry) ==
    CASE registry = <<"d", "o", "c", "k", "e", "r", "-", "h", "u", "b">> -> "Docker Hub"
      [] registry = <<"g", "h", "c", "r">> -> "GitHub Container Registry"
      [] registry = <<"b", "o", "t", "h">> -> "Docker Hub + GHCR"
      [] OTHER -> "as given"

\* the comment body, or the TypeError of reading a property of undefined
commentBody_of(customTemplate, buildFlowType, flowEntry, registry) ==
    IF customTemplate # Empty
    THEN [threw |-> FALSE, template |-> "custom", text |-> customTemplate,
          BUILD_FLOW |-> buildFlowType]
    ELSE IF flowEntry.kind = "undefined"
    THEN [threw |-> TRUE]
    ELSE [threw |-> FALSE, template |-> "default", text |-> <<Marker>>,
          emoji |-> Interpolated(flowEntry, "emoji"),
          title |-> Interpolated(flowEntry, "title"),
          description |-> Interpolated(flowEntry, "description"),
          BUILD_FLOW |-> buildFlowType,
          registry |-> RegistryDisplay(registry)]

\* configuration, metadata lookup and comment generation of pr-comment.ts
render_ts(e) ==
    LET flowEntry == flow_ts(buildFlowType_ts(e))
    IN  [flow |-> flowEntry,
         body |-> commentBody_of(Nullish(e.PR_COMMENT_TEMPLATE, Empty), buildFlowType_ts(e),
                                 flowEntry, Nullish(e.REGISTRY, <<"b", "o", "t", "h">>))]

\* configuration, metadata lookup and comment generation of pr-comment.js
render_js(e) ==
    LET flowEntry == flow_js(buildFlowType_js(e))
    IN  [flow |-> flowEntry,
         body |-> commentBody_of(Falsy(e.PR_COMMENT_TEMPLATE, Empty), buildFlowType_js(e),
                                 flowEntry, Falsy(e.REGISTRY, <<"b", "o", "t", "h">>))]

\* body.includes('Container Build Complete')
IncludesMarker(body) == \E i \in 1..Len(body.text) : body.text[i] = Marker

\* comments.find(a Bot's comment that includes the marker): its id, or 0
FindBotComment(comments) ==
    LET found == {i \in 1..Len(comments) :
                     comments[i].user_type = "Bot" /\ IncludesMarker(comments[i].body)}
    IN  IF found = {} THEN 0
        ELSE comments[CHOOSE i \in found : \A j \in found : i <= j].id

\* issues.listComments is called without per_page or page: the API answers
\* with its first page, the 30 oldest comments
per_page == 30

FirstPage(comments) == SubSeq(comments, 1, Min(per_page, Len(comments)))

NoFlow == [kind |-> "none"]

NoBody == [threw |-> FALSE, template |-> "none", text |-> << >>]

\* what the renderer can be given as BUILD_FLOW_TYPE
FlowTypeValues ==
    {Undefined, Empty, F_pr, F_dev, F_patch, F_staging, F_release, F_wip, S_unknown,
     <<"l", "a", "t", "e", "s", "t">>, <<"c", "o", "n", "s", "t", "r", "u", "c", "t", "o", "r">>}

\* unset, empty, a template of its own, and one that repeats the heading
TemplateValues ==
    {Undefined, Empty, <<"{BUILD_FLOW}", " built ", "{IMAGE_TAGS}">>,
     <<Marker, ": ", "{BUILD_FLOW}">>}

RendererEnvs ==
    {[BUILD_FLOW_TYPE |-> f, PR_COMMENT_TEMPLATE |-> t, REGISTRY |-> r] :
        f \in FlowTypeValues, t \in TemplateValues, r \in {Undefined, <<"g", "h", "c", "r">>}}

\* the triggering event: a pull request with its payload, a push, or
\* another event
Contexts ==
    {[eventName |-> "pull_request", pull_request |-> 7],
     [eventName |-> "push", pull_request |-> 0],
     [eventName |-> "workflow_dispatch", pull_request |-> 0]}

Comment(id, user_type, body) == [id |-> id, user_type |-> user_type, body |-> body]

\* a comment that has nothing to do with the action
Unrelated(id, user_type) ==
    Comment(id, user_type, [threw |-> FALSE, template |-> "custom", text |-> <<"coverage">>,
                            BUILD_FLOW |-> Empty])

\* a long discussion: a full page of people's comments
FullPage == [i \in 1..per_page |-> Unrelated(i, "User")]

\* the comments a pull request holds before the run: none, the action's
\* earlier comment after a person's comment quoting the heading, another
\* bot's comment, or a long discussion
CommentLists ==
    {<< >>,
     <<Comment(1, "User", render_js([BUILD_FLOW_TYPE |-> F_pr, PR_COMMENT_TEMPLATE |-> Undefined,
                                     REGISTRY |-> Undefined]).body),
       Comment(2, "Bot", render_js([BUILD_FLOW_TYPE |-> F_pr, PR_COMMENT_TEMPLATE |-> Undefined,
                                    REGISTRY |-> Undefined]).body)>>,
     <<Unrelated(1, "Bot")>>,
     FullPage}

----------------------------------------------------------------------------
(* The run of main(): validate_environment, resolve_image_names,           *)
(* detect_build_flow.                                                      *)

Start(e) ==
    /\ env = e
    /\ pc = "validate"
    /\ DOCKERHUB_IMAGE = Empty
    /\ GHCR_IMAGE = Empty
    /\ flow_type = ""
    /\ short_sha = Empty
    /\ full_tag = Empty
    /\ rule = 0
    /\ output = << >>
    /\ invocation = 1

\* the workspace before either scan step has run
ScanStart(baseline, current) ==
    /\ trivy_baseline_results = baseline
    /\ trivy_image_results = current
    /\ trivy_comparison = NotWritten
    /\ differ_state = "pending"
    /\ differ_script = "none"
    /\ trivy_scan_summary = NotWritten
    /\ summary_outputs = NoOutputs
    /\ summarizer_state = "pending"

\* no scan step runs beside the classifier
ScanIdle == ScanStart(Absent, Absent)

\* the renderer before its run, with what it will find
RendererStart(e, c, prs, comments, author) ==
    /\ renderer_env = e
    /\ renderer_pc = "start"
    /\ renderer_script = "none"
    /\ context = c
    /\ open_prs = prs
    /\ pr_comments = comments
    /\ token_user_type = author
    /\ renderer_flow = NoFlow
    /\ commentBody = NoBody
    /\ prNumber = 0
    /\ botComment = 0
    /\ comment_posted = ""
    /\ renderer_run = 1

\* the second run: not started ("idle") or about to start
SecondRun(state) ==
    /\ renderer_pc_2 = state
    /\ commentBody_2 = NoBody
    /\ prNumber_2 = 0
    /\ botComment_2 = 0
    /\ comment_posted_2 = ""

\* no renderer runs beside the classifier or the scan steps
RendererIdle ==
    RendererStart([BUILD_FLOW_TYPE |-> Undefined, PR_COMMENT_TEMPLATE |-> Undefined,
                   REGISTRY |-> Undefined],
                  [eventName |-> "workflow_dispatch", pull_request |-> 0], << >>, << >>, "Bot")
    /\ SecondRun("idle")

Init == ScanIdle /\ RendererIdle /\ \E e \in FlowEnvs \cup TagEnvs \cup ContextEnvs : Start(e)

InitVersions == ScanIdle /\ RendererIdle /\ \E e \in VersionEnvs : Start(e)

\* GITHUB_REPOSITORY left unchecked
validate_environment_no_repository(e) ==
    LET errors == (IF e.GITHUB_SHA = Empty THEN 1 ELSE 0)
                  + (IF e.GITHUB_REPOSITORY_OWNER = Empty THEN 1 ELSE 0)
                  + (IF ~e.GITHUB_OUTPUT THEN 1 ELSE 0)
    IN  errors

validate_environment(e) ==
    LET errors == (IF e.GITHUB_SHA = Empty THEN 1 ELSE 0)
                  + (IF e.GITHUB_REPOSITORY = Empty THEN 1 ELSE 0)
                  + (IF e.GITHUB_REPOSITORY_OWNER = Empty THEN 1 ELSE 0)
                  + (IF ~e.GITHUB_OUTPUT THEN 1 ELSE 0)
    IN  errors

ValidateEnvironment ==
    /\ pc = "validate"
    /\ pc' = IF validate_environment(env) > 0 THEN "failed" ELSE "resolve"
    /\ UNCHANGED <<env, DOCKERHUB_IMAGE, GHCR_IMAGE, flow_type, short_sha, full_tag,
                   rule, output, invocation>>
    /\ UNCHANGED <<scanVars, rendererVars>>

resolve_image_names(e) ==
    LET repo_name == get_repo_name(e.GITHUB_REPOSITORY)
        base_image_name == IF e.IMAGE_NAME # Empty THEN e.IMAGE_NAME ELSE repo_name
    IN  [dockerhub |-> e.GITHUB_REPOSITORY_OWNER \o <<"/">> \o base_image_name,
         ghcr |-> GhcrIo \o e.GITHUB_REPOSITORY_OWNER \o <<"/">> \o base_image_name]

ResolveImageNames ==
    /\ pc = "resolve"
    /\ DOCKERHUB_IMAGE' = resolve_image_names(env).dockerhub
    /\ GHCR_IMAGE' = resolve_image_names(env).ghcr
    /\ pc' = "detect"
    /\ UNCHANGED <<env, flow_type, short_sha, full_tag, rule, output, invocation>>
    /\ UNCHANGED <<scanVars, rendererVars>>

\* the tags an earlier invocation left in GITHUB_OUTPUT are carried into the new list
DetectBuildFlow_carried_tags ==
    /\ pc = "detect"
    /\ LET d == detect_build_flow(env)
           tags == IF output = << >> THEN d.full_tag
                   ELSE output[2][2] \o <<",">> \o d.full_tag
       IN  /\ flow_type' = d.flow_type
           /\ short_sha' = d.short_sha
           /\ full_tag' = tags
           /\ rule' = d.rule
           /\ output' = output \o << <<"build-flow-type", FlowName(d.flow_type)>>,
                                    <<"tags", tags>>,
                                    <<"short-sha", d.short_sha>>,
                                    <<"dockerhub-image", DOCKERHUB_IMAGE>>,
                                    <<"ghcr-image", GHCR_IMAGE>> >>
    /\ pc' = "done"
    /\ UNCHANGED <<env, DOCKERHUB_IMAGE, GHCR_IMAGE, invocation>>
    /\ UNCHANGED <<scanVars, rendererVars>>

DetectBuildFlow ==
    /\ pc = "detect"
    /\ LET d == detect_build_flow(env)
       IN  /\ flow_type' = d.flow_type
           /\ short_sha' = d.short_sha
           /\ full_tag' = d.full_tag
           /\ rule' = d.rule
           /\ output' = output \o << <<"build-flow-type", FlowName(d.flow_type)>>,
                                    <<"tags", d.full_tag>>,
                                    <<"short-sha", d.short_sha>>,
                                    <<"dockerhub-image", DOCKERHUB_IMAGE>>,
                                    <<"ghcr-image", GHCR_IMAGE>> >>
    /\ pc' = "done"
    /\ UNCHANGED <<env, DOCKERHUB_IMAGE, GHCR_IMAGE, invocation>>
    /\ UNCHANGED <<scanVars, rendererVars>>

Next == ValidateEnvironment \/ ResolveImageNames \/ DetectBuildFlow

Spec == Init /\ [][Next]_vars

SpecVersions == InitVersions /\ [][Next]_vars

(* The script invoked again on the same trigger event and configuration:   *)
(* a new process with fresh shell variables, the same environment, and     *)
(* the GITHUB_OUTPUT file of the step, to which main() appends.            *)
MaxInvocations == 2

Reinvoke ==
    /\ pc = "done"
    /\ invocation < MaxInvocations
    /\ invocation' = invocation + 1
    /\ pc' = "validate"
    /\ DOCKERHUB_IMAGE' = Empty
    /\ GHCR_IMAGE' = Empty
    /\ flow_type' = ""
    /\ short_sha' = Empty
    /\ full_tag' = Empty
    /\ rule' = 0
    /\ UNCHANGED <<env, output>>
    /\ UNCHANGED <<scanVars, rendererVars>>

NextRerun == ValidateEnvironment \/ ResolveImageNames \/ DetectBuildFlow \/ Reinvoke

SpecRerun == Init /\ [][NextRerun]_vars

----------------------------------------------------------------------------
(* The scan steps: parse-trivy-results and generate-comparison each run    *)
(* once over the files of the workspace.                                   *)

InitScan ==
    /\ Start(DefaultEnv)
    /\ RendererIdle
    /\ \E s \in KeyScans \cup PartitionScans \cup SeverityScans : ScanStart(s[1], s[2])

ParseTrivyResults ==
    /\ summarizer_state = "pending"
    /\ summarizer_state' = "returned"
    /\ trivy_scan_summary' = parseTrivyResults(trivy_image_results).file
    /\ summary_outputs' = parseTrivyResults(trivy_image_results).outputs
    /\ UNCHANGED <<classifierVars, rendererVars, trivy_baseline_results,
                   trivy_image_results, trivy_comparison, differ_state, differ_script>>

GenerateComparisonTs ==
    /\ differ_state = "pending"
    /\ differ_state' = "returned"
    /\ differ_script' = "ts"
    /\ trivy_comparison' =
           Written(generateComparison_ts(trivy_baseline_results, trivy_image_results))
    /\ UNCHANGED <<classifierVars, rendererVars, trivy_baseline_results,
                   trivy_image_results, trivy_scan_summary, summary_outputs,
                   summarizer_state>>

GenerateComparisonJs ==
    /\ differ_state = "pending"
    /\ differ_state' = "returned"
    /\ differ_script' = "js"
    /\ trivy_comparison' =
           Written(generateComparison_js(trivy_baseline_results, trivy_image_results))
    /\ UNCHANGED <<classifierVars, rendererVars, trivy_baseline_results,
                   trivy_image_results, trivy_scan_summary, summary_outputs,
                   summarizer_state>>

NextScan == ParseTrivyResults \/ GenerateComparisonTs \/ GenerateComparisonJs

SpecScan == InitScan /\ [][NextScan]_vars

----------------------------------------------------------------------------
(* One run of the comment renderer: the body is generated, the pull        *)
(* request resolved, its comments listed, and the comment updated or       *)
(* created; each await of the GitHub API ends a step.                      *)

InitRenderer ==
    /\ Start(DefaultEnv)
    /\ ScanIdle
    /\ \E e \in RendererEnvs, c \in Contexts, prs \in {<< >>, <<7, 8>>},
          comments \in CommentLists, author \in {"Bot", "User"} :
          RendererStart(e, c, prs, comments, author)
    /\ SecondRun("idle")

\* a thrown error reaches the outer catch: core.setFailed
Failed ==
    /\ renderer_pc' = "failed"
    /\ UNCHANGED <<pr_comments, prNumber, botComment, comment_posted>>

RenderTs ==
    /\ renderer_pc = "start"
    /\ renderer_script' = "ts"
    /\ renderer_flow' = render_ts(renderer_env).flow
    /\ commentBody' = render_ts(renderer_env).body
    /\ renderer_pc' = IF render_ts(renderer_env).body.threw THEN "failed" ELSE "resolve"
    /\ UNCHANGED <<classifierVars, scanVars, renderer_env, context, open_prs, pr_comments,
                   token_user_type, prNumber, botComment, comment_posted>>
    /\ UNCHANGED <<renderer_run, secondRunVars>>

RenderJs ==
    /\ renderer_pc = "start"
    /\ renderer_script' = "js"
    /\ renderer_flow' = render_js(renderer_env).flow
    /\ commentBody' = render_js(renderer_env).body
    /\ renderer_pc' = IF render_js(renderer_env).body.threw THEN "failed" ELSE "resolve"
    /\ UNCHANGED <<classifierVars, scanVars, renderer_env, context, open_prs, pr_comments,
                   token_user_type, prNumber, botComment, comment_posted>>
    /\ UNCHANGED <<renderer_run, secondRunVars>>

\* the pull request looked up at the start of the run, before the body exists
ResolvePullRequest_before_render ==
    /\ renderer_pc = "start"
    /\ \E searched \in BOOLEAN :
          prNumber' = IF context.pull_request # 0 THEN context.pull_request
                      ELSE IF context.eventName = "push" /\ searched /\ Len(open_prs) > 0
                      THEN open_prs[1]
                      ELSE 0
    /\ renderer_pc' = IF prNumber' # 0 THEN "list" ELSE "done"
    /\ comment_posted' = IF prNumber' # 0 THEN comment_posted ELSE "false"
    /\ UNCHANGED <<classifierVars, scanVars, renderer_env, renderer_script, context,
                   open_prs, pr_comments, token_user_type, renderer_flow, commentBody,
                   botComment>>
    /\ UNCHANGED <<renderer_run, secondRunVars>>

\* the pull request of the payload, or the first open one whose head is the
\* pushed branch; a failed search is logged and leaves none
ResolvePullRequest ==
    /\ renderer_pc = "resolve"
    /\ \E searched \in BOOLEAN :
          prNumber' = IF context.pull_request # 0 THEN context.pull_request
                      ELSE IF context.eventName = "push" /\ searched /\ Len(open_prs) > 0
                      THEN open_prs[1]
                      ELSE 0
    /\ renderer_pc' = IF prNumber' # 0 THEN "list" ELSE "done"
    /\ comment_posted' = IF prNumber' # 0 THEN comment_posted ELSE "false"
    /\ UNCHANGED <<classifierVars, scanVars, renderer_env, renderer_script, context,
                   open_prs, pr_comments, token_user_type, renderer_flow, commentBody,
                   botComment>>
    /\ UNCHANGED <<renderer_run, secondRunVars>>

ListComments ==
    /\ renderer_pc = "list"
    /\ \/ /\ botComment' = FindBotComment(FirstPage(pr_comments))
          /\ renderer_pc' = "post"
          /\ UNCHANGED <<pr_comments, prNumber, comment_posted>>
       \/ Failed
    /\ UNCHANGED <<classifierVars, scanVars, renderer_env, renderer_script, context,
                   open_prs, token_user_type, renderer_flow, commentBody>>
    /\ UNCHANGED <<renderer_run, secondRunVars>>

\* the comments searched again in the step that posts
PostComment_lists_again ==
    /\ renderer_pc = "post"
    /\ \/ /\ pr_comments' =
                IF FindBotComment(FirstPage(pr_comments)) # 0
                THEN [i \in 1..Len(pr_comments) |->
                         IF pr_comments[i].id = FindBotComment(FirstPage(pr_comments))
                         THEN [pr_comments[i] EXCEPT !.body = commentBody]
                         ELSE pr_comments[i]]
                ELSE Append(pr_comments,
                            Comment(Len(pr_comments) + 1, token_user_type, commentBody))
          /\ comment_posted' = "true"
          /\ renderer_pc' = "done"
          /\ UNCHANGED <<prNumber, botComment>>
       \/ Failed
    /\ UNCHANGED <<classifierVars, scanVars, renderer_env, renderer_script, context,
                   open_prs, token_user_type, renderer_flow, commentBody>>
    /\ UNCHANGED <<renderer_run, secondRunVars>>

\* updateComment on the comment found, createComment otherwise
PostComment ==
    /\ renderer_pc = "post"
    /\ \/ /\ pr_comments' =
                IF botComment # 0
                THEN [i \in 1..Len(pr_comments) |->
                         IF pr_comments[i].id = botComment
                         THEN [pr_comments[i] EXCEPT !.body = commentBody]
                         ELSE pr_comments[i]]
                ELSE Append(pr_comments,
                            Comment(Len(pr_comments) + 1, token_user_type, commentBody))
          /\ comment_posted' = "true"
          /\ renderer_pc' = "done"
          /\ UNCHANGED <<prNumber, botComment>>
       \/ Failed
    /\ UNCHANGED <<classifierVars, scanVars, renderer_env, renderer_script, context,
                   open_prs, token_user_type, renderer_flow, commentBody>>
    /\ UNCHANGED <<renderer_run, secondRunVars>>

NextRenderer == RenderTs \/ RenderJs \/ ResolvePullRequest \/ ListComments \/ PostComment

SpecRenderer == InitRenderer /\ [][NextRenderer]_vars

(* The workflow runs again for the same pull request after the earlier run *)
(* has ended: a new process with fresh locals finds the pull request with  *)
(* the comments the earlier runs left.                                     *)
MaxRuns == 3

RendererRerun ==
    /\ renderer_pc \in {"done", "failed"}
    /\ renderer_run < MaxRuns
    /\ renderer_run' = renderer_run + 1
    /\ renderer_pc' = "start"
    /\ renderer_script' = "none"
    /\ renderer_flow' = NoFlow
    /\ commentBody' = NoBody
    /\ prNumber' = 0
    /\ botComment' = 0
    /\ comment_posted' = ""
    /\ UNCHANGED <<classifierVars, scanVars, renderer_env, context, open_prs, pr_comments,
                   token_user_type, secondRunVars>>

NextRuns ==
    RenderTs \/ RenderJs \/ ResolvePullRequest \/ ListComments \/ PostComment
    \/ RendererRerun

SpecRuns == InitRenderer /\ [][NextRuns]_vars

(* A second run of the workflow for the same pull request while the first  *)
(* is under way (two pushes in a row, or two workflows using the action):  *)
(* another process of the same script with locals of its own, the same     *)
(* configuration and event, and the one pull request on the server. The    *)
(* steps of the two runs interleave at every await.                        *)

firstRunVars ==
    <<renderer_pc, renderer_script, renderer_flow, commentBody, prNumber, botComment,
      comment_posted, renderer_run>>

InitOverlap ==
    /\ Start(DefaultEnv)
    /\ ScanIdle
    /\ \E e \in RendererEnvs, c \in Contexts, prs \in {<< >>, <<7, 8>>},
          comments \in CommentLists, author \in {"Bot", "User"} :
          RendererStart(e, c, prs, comments, author)
    /\ SecondRun("start")

Failed_2 ==
    /\ renderer_pc_2' = "failed"
    /\ UNCHANGED <<pr_comments, prNumber_2, botComment_2, comment_posted_2>>

Render_2 ==
    /\ renderer_pc_2 = "start"
    /\ \E r \in {render_ts(renderer_env), render_js(renderer_env)} :
          /\ commentBody_2' = r.body
          /\ renderer_pc_2' = IF r.body.threw THEN "failed" ELSE "resolve"
    /\ UNCHANGED <<classifierVars, scanVars, firstRunVars, renderer_env, context, open_prs,
                   pr_comments, token_user_type, prNumber_2, botComment_2,
                   comment_posted_2>>

ResolvePullRequest_2 ==
    /\ renderer_pc_2 = "resolve"
    /\ \E searched \in BOOLEAN :
          prNumber_2' = IF context.pull_request # 0 THEN context.pull_request
                        ELSE IF context.eventName = "push" /\ searched /\ Len(open_prs) > 0
                        THEN open_prs[1]
                        ELSE 0
    /\ renderer_pc_2' = IF prNumber_2' # 0 THEN "list" ELSE "done"
    /\ comment_posted_2' = IF prNumber_2' # 0 THEN comment_posted_2 ELSE "false"
    /\ UNCHANGED <<classifierVars, scanVars, firstRunVars, renderer_env, context, open_prs,
                   pr_comments, token_user_type, commentBody_2, botComment_2>>

ListComments_2 ==
    /\ renderer_pc_2 = "list"
    /\ \/ /\ botComment_2' = FindBotComment(FirstPage(pr_comments))
          /\ renderer_pc_2' = "post"
          /\ UNCHANGED <<pr_comments, prNumber_2, comment_posted_2>>
       \/ Failed_2
    /\ UNCHANGED <<classifierVars, scanVars, firstRunVars, renderer_env, context, open_prs,
                   token_user_type, commentBody_2>>

PostComment_2 ==
    /\ renderer_pc_2 = "post"
    /\ \/ /\ pr_comments' =
                IF botComment_2 # 0
                THEN [i \in 1..Len(pr_comments) |->
                         IF pr_comments[i].id = botComment_2
                         THEN [pr_comments[i] EXCEPT !.body = commentBody_2]
                         ELSE pr_comments[i]]
                ELSE Append(pr_comments,
                            Comment(Len(pr_comments) + 1, token_user_type, commentBody_2))
          /\ comment_posted_2' = "true"
          /\ renderer_pc_2' = "done"
          /\ UNCHANGED <<prNumber_2, botComment_2>>
       \/ Failed_2
    /\ UNCHANGED <<classifierVars, scanVars, firstRunVars, renderer_env, context, open_prs,
                   token_user_type, commentBody_2>>

NextOverlap ==
    \/ RenderTs \/ RenderJs \/ ResolvePullRequest \/ ListComments \/ PostComment
    \/ Render_2 \/ ResolvePullRequest_2 \/ ListComments_2 \/ PostComment_2

SpecOverlap == InitOverlap /\ [][NextOverlap]_vars

----------------------------------------------------------------------------
(* Vocabulary of the properties.                                           *)

FlowTypes == {"pr", "dev", "patch", "staging", "release", "wip"}

IsPullRequestEvent(e) ==
    e.GITHUB_EVENT_NAME \in {"pull_request", "pull_request_target"}

IsTagPush(e) == e.GITHUB_EVENT_NAME = "push" /\ HasPrefix(e.GITHUB_REF, RefsTags)

IsTagCreation(e) == e.GITHUB_EVENT_NAME = "create" /\ e.GITHUB_REF_TYPE = "tag"

IsRelease(e) == e.GITHUB_EVENT_NAME = "release"

TagRuleFires(e) == IsRelease(e) \/ IsTagCreation(e) \/ IsTagPush(e)

\* the tag name the firing tag rule looks at
TagNameOf(e) ==
    IF IsTagCreation(e) /\ ~IsRelease(e) THEN e.GITHUB_REF_NAME
    ELSE StripPrefix(e.GITHUB_REF, RefsTags)

\* the rules of the classifier whose event condition holds
MatchingRules(e) ==
    {n \in 1..6 :
        \/ n = 1 /\ IsRelease(e)
        \/ n = 2 /\ IsTagCreation(e)
        \/ n = 3 /\ IsTagPush(e)
        \/ n = 4 /\ IsPullRequestEvent(e)
        \/ n = 5 /\ e.GITHUB_EVENT_NAME = "push"
        \/ n = 6}

FirstMatchingRule(e) == CHOOSE n \in MatchingRules(e) : \A m \in MatchingRules(e) : n <= m

IndexOf(s, c) ==
    IF \E i \in 1..Len(s) : s[i] = c
    THEN CHOOSE i \in 1..Len(s) : s[i] = c /\ \A j \in 1..(i - 1) : s[j] # c
    ELSE 0

\* the part of s before the first c (all of s when c does not occur)
Before(s, c) == IF IndexOf(s, c) = 0 THEN s ELSE SubSeq(s, 1, IndexOf(s, c) - 1)

\* the part of s after the first c
After(s, c) == SubSeq(s, IndexOf(s, c) + 1, Len(s))

\* three dot-separated non-empty runs of digits
IsNumericTriple(s) ==
    LET dots == {i \in 1..Len(s) : s[i] = "."}
    IN  /\ Cardinality(dots) = 2
        /\ \A i \in (1..Len(s)) \ dots : s[i] \in Digit
        /\ 1 \notin dots /\ Len(s) \notin dots
        /\ \A i \in dots : i + 1 \notin dots

\* dot/hyphen-separated alphanumeric identifiers, none of them empty
IsIdentifierList(s) ==
    /\ s # Empty
    /\ \A i \in 1..Len(s) : s[i] \in Alnum \cup {".", "-"}
    /\ s[1] \in Alnum /\ s[Len(s)] \in Alnum
    /\ \A i \in 1..(Len(s) - 1) : s[i] \in Alnum \/ s[i + 1] \in Alnum

\* one or more alphanumeric, dot or hyphen characters
IsSuffixBody(s) == s # Empty /\ \A i \in 1..Len(s) : s[i] \in Alnum \cup {".", "-"}

\* the version grammar, with Body deciding what may follow '-' and '+'
InGrammar(s, Body(_)) ==
    LET nov == StripPrefix(s, <<"v">>)
        main == Before(nov, "+")
        core == Before(main, "-")
    IN  /\ IsNumericTriple(core)
        /\ IndexOf(main, "-") # 0 => Body(After(main, "-"))
        /\ IndexOf(nov, "+") # 0 => Body(After(nov, "+"))

IsSemanticVersion(s) == InGrammar(s, IsSuffixBody)

IsStrictSemanticVersion(s) == InGrammar(s, IsIdentifierList)

----------------------------------------------------------------------------
(* Classification properties.                                              *)

\* C1: the rules are tried in the order release, tag creation, tag push,
\* pull request, branch push, other, and the first whose event condition
\* holds decides: a push under refs/tags/ is classified by the tag rule
\* (release or wip by its tag name), never by the branch-push rule, and a
\* release event never by the pull-request rule whatever the base and head.
C1_StrictPrecedence ==
    pc = "done" =>
        /\ rule = FirstMatchingRule(env)
        /\ IsTagPush(env) =>
              /\ rule = 3
              /\ flow_type = IF IsSemanticVersion(TagNameOf(env)) THEN "release" ELSE "wip"
        /\ IsRelease(env) =>
              /\ rule = 1
              /\ flow_type = IF IsSemanticVersion(TagNameOf(env)) THEN "release" ELSE "wip"

C1_Witness ==
    /\ pc = "done"
    /\ IsRelease(env)
    /\ env.GITHUB_BASE_REF = env.DEV_BRANCH
    /\ flow_type = "release"

\* C2: every run that classifies assigns exactly one category out of pr,
\* dev, patch, staging, release, wip, written once to the output, and an
\* event that matches no rule is classified wip.
C2_ExactlyOneCategory ==
    pc = "done" =>
        /\ flow_type \in FlowTypes
        /\ Cardinality({i \in 1..Len(output) : output[i][1] = "build-flow-type"}) = 1
        /\ \A i \in 1..Len(output) :
              output[i][1] = "build-flow-type" => output[i][2] = FlowName(flow_type)
        /\ MatchingRules(env) = {6} => flow_type = "wip"

C2_Witness ==
    /\ pc = "done"
    /\ env.GITHUB_EVENT_NAME = "workflow_dispatch"
    /\ flow_type = "wip"

\* C3: when a tag rule fires the category is release exactly when the tag
\* name is a semantic version and wip otherwise; when none fires the
\* category is never release.
C3_TagRuleReleaseOrWip ==
    pc = "done" =>
        /\ TagRuleFires(env) =>
              flow_type = IF IsSemanticVersion(TagNameOf(env)) THEN "release" ELSE "wip"
        /\ ~TagRuleFires(env) => flow_type # "release"

C3_Witness ==
    /\ pc = "done"
    /\ IsTagPush(env)
    /\ TagNameOf(env) = N_dev
    /\ env.DEV_BRANCH = N_dev
    /\ flow_type = "wip"

\* C4: a pull_request or pull_request_target event is classified pr when
\* its target is the dev branch, otherwise dev when its target is the main
\* branch and its source the dev branch, otherwise patch when its target is
\* the main branch, otherwise wip.
C4_PullRequestRule ==
    (pc = "done" /\ IsPullRequestEvent(env)) =>
        LET base == env.GITHUB_BASE_REF
            head == env.GITHUB_HEAD_REF
        IN  /\ base = env.DEV_BRANCH => flow_type = "pr"
            /\ (base # env.DEV_BRANCH /\ base = env.MAIN_BRANCH /\ head = env.DEV_BRANCH)
                  => flow_type = "dev"
            /\ (base # env.DEV_BRANCH /\ base = env.MAIN_BRANCH /\ head # env.DEV_BRANCH)
                  => flow_type = "patch"
            /\ (base # env.DEV_BRANCH /\ base # env.MAIN_BRANCH) => flow_type = "wip"

C4_Witness ==
    /\ pc = "done"
    /\ env.GITHUB_EVENT_NAME = "pull_request_target"
    /\ env.GITHUB_BASE_REF = env.MAIN_BRANCH
    /\ env.GITHUB_HEAD_REF = env.DEV_BRANCH
    /\ env.MAIN_BRANCH # env.DEV_BRANCH
    /\ flow_type = "dev"

\* C5: a push to a branch ref is classified dev when the branch is the dev
\* branch, otherwise staging when it is the main branch, otherwise wip.
C5_BranchPushRule ==
    (pc = "done" /\ env.GITHUB_EVENT_NAME = "push" /\ HasPrefix(env.GITHUB_REF, RefsHeads)) =>
        LET branch == SubSeq(env.GITHUB_REF, Len(RefsHeads) + 1, Len(env.GITHUB_REF))
        IN  /\ branch = env.DEV_BRANCH => flow_type = "dev"
            /\ (branch # env.DEV_BRANCH /\ branch = env.MAIN_BRANCH) => flow_type = "staging"
            /\ (branch # env.DEV_BRANCH /\ branch # env.MAIN_BRANCH) => flow_type = "wip"

C5_Witness ==
    /\ pc = "done"
    /\ env.GITHUB_EVENT_NAME = "push"
    /\ env.GITHUB_REF = RefsHeads \o env.MAIN_BRANCH
    /\ env.MAIN_BRANCH # env.DEV_BRANCH
    /\ flow_type = "staging"

----------------------------------------------------------------------------
(* Version and tag properties.                                             *)

RECURSIVE SplitOn(_, _)
\* the pieces of s between the occurrences of c
SplitOn(s, c) ==
    IF IndexOf(s, c) = 0 THEN <<s>> ELSE <<Before(s, c)>> \o SplitOn(After(s, c), c)

\* the emitted tags, in order
TagList == SplitOn(full_tag, ",")

Contains(s, c) == IndexOf(s, c) # 0

\* t is v with every '+' replaced by '-'
IsPlusReplaced(v, t) ==
    /\ Len(t) = Len(v)
    /\ \A i \in 1..Len(v) : t[i] = IF v[i] = "+" THEN "-" ELSE v[i]

\* what tag holds between the prefix P and the suffix S
Unwrap(tag, P, S) == SubSeq(tag, Len(P) + 1, Len(tag) - Len(S))

IsWrapped(tag, P, S) == tag = P \o Unwrap(tag, P, S) \o S

\* after the leading v and the build metadata are removed, a '-' and at
\* least one more character directly follow the patch number
HasPreReleaseSuffix(v) ==
    LET main == Before(StripPrefix(v, <<"v">>), "+")
    IN  /\ Contains(main, "-")
        /\ IsNumericTriple(Before(main, "-"))
        /\ After(main, "-") # Empty

\* the first two numeric components of v without its leading v
FirstTwoComponents(v) ==
    LET nov == StripPrefix(v, <<"v">>)
    IN  Before(nov, ".") \o Dot \o Before(After(nov, "."), ".")

FirstSeven(sha) == IF Len(sha) < 7 THEN sha ELSE SubSeq(sha, 1, 7)

\* C6 as stated: a tag is accepted (and so released) exactly when it is
\* optional v, three dot-separated numbers, then optionally '-' and
\* non-empty dot/hyphen-separated alphanumeric identifiers, then optionally
\* '+' and such identifiers.
C6_StrictGrammar ==
    pc = "done" => (flow_type = "release" <=> IsStrictSemanticVersion(env.GITHUB_REF_NAME))

\* C6 amended: a tag is accepted exactly when it is optional v, three
\* dot-separated numbers, then optionally '-' and one or more alphanumeric,
\* dot or hyphen characters, then optionally '+' and one or more such
\* characters (identifiers between the separators may be empty).
C6_LooseGrammar ==
    pc = "done" => (flow_type = "release" <=> IsSemanticVersion(env.GITHUB_REF_NAME))

C6_Witness ==
    /\ pc = "done"
    /\ flow_type = "release"
    /\ Contains(env.GITHUB_REF_NAME, "-")
    /\ Contains(env.GITHUB_REF_NAME, "+")
    /\ ~IsStrictSemanticVersion(env.GITHUB_REF_NAME)

\* C7: a release of a stable version emits exactly the exact-version tag,
\* the major.minor tag and latest, in that order, each between the prefix
\* and the suffix; a release of a pre-release version emits exactly the
\* exact-version tag.
C7_ReleaseTagSequence ==
    (pc = "done" /\ flow_type = "release") =>
        LET v == TagNameOf(env)
            P == env.TAG_PREFIX
            S == env.TAG_SUFFIX
        IN  /\ IsWrapped(TagList[1], P, S)
            /\ IsPlusReplaced(v, Unwrap(TagList[1], P, S))
            /\ IF HasPreReleaseSuffix(v)
               THEN Len(TagList) = 1
               ELSE /\ Len(TagList) = 3
                    /\ TagList[2] = P \o FirstTwoComponents(v) \o S
                    /\ TagList[3] = P \o Latest \o S

C7_Witness ==
    /\ pc = "done"
    /\ flow_type = "release"
    /\ env.TAG_PREFIX # Empty
    /\ env.TAG_SUFFIX # Empty
    /\ TagNameOf(env) = V_plain
    /\ Len(TagList) = 3

\* C8: an accepted version is treated as a pre-release (only its exact tag
\* is emitted) exactly when, without its leading v and its build metadata,
\* a '-' and a suffix directly follow the patch number; a hyphen inside the
\* build metadata alone leaves the version stable.
C8_PreReleaseCheck ==
    (pc = "done" /\ flow_type = "release") =>
        LET v == env.GITHUB_REF_NAME
        IN  /\ Len(TagList) = 1 <=> HasPreReleaseSuffix(v)
            /\ ~Contains(Before(v, "+"), "-") => Len(TagList) = 3

C8_Witness ==
    /\ pc = "done"
    /\ flow_type = "release"
    /\ Contains(After(env.GITHUB_REF_NAME, "+"), "-")
    /\ ~Contains(Before(env.GITHUB_REF_NAME, "+"), "-")
    /\ Len(TagList) = 3

\* C9: the exact-version tag of a release is the tag name with every '+'
\* replaced by '-', and when neither prefix nor suffix contains '+' no
\* emitted tag of any flow contains '+'.
C9_PlusSanitized ==
    pc = "done" =>
        /\ flow_type = "release" =>
              /\ IsWrapped(TagList[1], env.TAG_PREFIX, env.TAG_SUFFIX)
              /\ IsPlusReplaced(TagNameOf(env),
                                Unwrap(TagList[1], env.TAG_PREFIX, env.TAG_SUFFIX))
        /\ (~Contains(env.TAG_PREFIX, "+") /\ ~Contains(env.TAG_SUFFIX, "+")) =>
              \A i \in 1..Len(TagList) : ~Contains(TagList[i], "+")

C9_Witness ==
    /\ pc = "done"
    /\ flow_type = "release"
    /\ Contains(TagNameOf(env), "+")
    /\ ~Contains(env.TAG_PREFIX, "+")
    /\ ~Contains(env.TAG_SUFFIX, "+")
    /\ ~Contains(full_tag, "+")

\* C10: every flow but release emits the single tag prefix, category, '-',
\* short SHA, suffix, the short SHA being the first 7 characters of the
\* commit SHA or all of it when it is shorter.
C10_FlowShaTag ==
    (pc = "done" /\ flow_type # "release") =>
        TagList = <<env.TAG_PREFIX \o FlowName(flow_type) \o Hyphen
                    \o FirstSeven(env.GITHUB_SHA) \o env.TAG_SUFFIX>>

C10_Witness ==
    /\ pc = "done"
    /\ flow_type \in FlowTypes \ {"release"}
    /\ Len(env.GITHUB_SHA) < 7
    /\ env.TAG_PREFIX # Empty
    /\ Len(TagList) = 1

\* two dot-separated non-empty runs of digits
IsNumericPair(s) ==
    LET dots == {i \in 1..Len(s) : s[i] = "."}
    IN  /\ Cardinality(dots) = 1
        /\ \A i \in (1..Len(s)) \ dots : s[i] \in Digit
        /\ 1 \notin dots /\ Len(s) \notin dots

\* a release of a version without a pre-release suffix
IsStableRelease == flow_type = "release" /\ ~HasPreReleaseSuffix(TagNameOf(env))

\* C11: the tag set of a run is non-empty and repeats no tag; it has one
\* member for the flows other than release and for pre-release versions
\* and three for a stable release, never two; and a latest tag or a
\* major.minor tag appears only in a stable release.
C11_TagSetShape ==
    pc = "done" =>
        /\ Len(TagList) >= 1
        /\ \A i, j \in 1..Len(TagList) : TagList[i] = TagList[j] => i = j
        /\ Len(TagList) = IF IsStableRelease THEN 3 ELSE 1
        /\ Len(TagList) # 2
        /\ ~IsStableRelease =>
              \A i \in 1..Len(TagList) :
                  LET t == Unwrap(TagList[i], env.TAG_PREFIX, env.TAG_SUFFIX)
                  IN  t # Latest /\ ~IsNumericPair(t)

C11_Witness ==
    /\ pc = "done"
    /\ flow_type = "release"
    /\ HasPreReleaseSuffix(TagNameOf(env))
    /\ env.TAG_PREFIX # Empty
    /\ Len(TagList) = 1

----------------------------------------------------------------------------
(* Validation properties.                                                  *)

\* C12: with an empty commit SHA or an empty repository name the run fails
\* in validate_environment: the image names are never resolved, nothing is
\* classified and nothing is written to the output; a run that resolves
\* names or classifies has all of its required context.
C12_ValidationFirst ==
    /\ (env.GITHUB_SHA = Empty \/ env.GITHUB_REPOSITORY = Empty) =>
          /\ pc \in {"validate", "failed"}
          /\ DOCKERHUB_IMAGE = Empty /\ GHCR_IMAGE = Empty
          /\ flow_type = "" /\ rule = 0
          /\ short_sha = Empty /\ full_tag = Empty
          /\ output = << >>
    /\ pc \in {"resolve", "detect", "done"} =>
          /\ env.GITHUB_SHA # Empty /\ env.GITHUB_REPOSITORY # Empty
          /\ env.GITHUB_REPOSITORY_OWNER # Empty /\ env.GITHUB_OUTPUT
    /\ (flow_type # "" \/ output # << >>) => pc = "done"

C12_Witness ==
    /\ pc = "failed"
    /\ env.GITHUB_REPOSITORY = Empty
    /\ env.GITHUB_SHA # Empty
    /\ env.GITHUB_REPOSITORY_OWNER # Empty
    /\ env.GITHUB_OUTPUT
    /\ output = << >>

----------------------------------------------------------------------------
(* Comparison properties.                                                  *)

\* the report in trivy-comparison.json
Report == trivy_comparison.content

\* the differ has run and has compared the two scans
Compared ==
    /\ differ_state = "returned"
    /\ trivy_comparison.written
    /\ Report.comparison_available

\* the key under which a reported record was filed
RecordKey(r) == r.id \o Hyphen \o r.package

Records(section) == {section.vulnerabilities[i] : i \in 1..Len(section.vulnerabilities)}

Keys(section) == {RecordKey(r) : r \in Records(section)}

\* what the script that ran makes of one scanned vulnerability
Processed(vuln) ==
    IF differ_script = "js" THEN ProcessedVulnerability_js(vuln)
    ELSE ProcessedVulnerability_ts(vuln)

\* C13: over the keys of the extracted baseline set B and current set C,
\* new, fixed and unchanged are pairwise disjoint, new and unchanged make
\* up C, and fixed and unchanged make up B.
C13_DiffSetAlgebra ==
    Compared =>
        LET B == Keys(Report.baseline)
            C == Keys(Report.current)
            N == Keys(Report.new)
            F == Keys(Report.fixed)
            U == Keys(Report.unchanged)
        IN  /\ N \cap F = {} /\ N \cap U = {} /\ F \cap U = {}
            /\ N \cup U = C
            /\ F \cup U = B

C13_Witness ==
    /\ Compared
    /\ Report.new.total = 1
    /\ Report.fixed.total = 1
    /\ Report.unchanged.total = 1

\* the (identifier, package) pairs of a scanned document
ScannedPairs(results) ==
    {<<ScannedVulnerabilities(results)[i].VulnerabilityID,
       ScannedVulnerabilities(results)[i].PkgName>> :
        i \in 1..Len(ScannedVulnerabilities(results))}

Pairs(section) == {<<r.id, r.package>> : r \in Records(section)}

\* every scanned record names its vulnerability and its package
AllNamed(results) ==
    \A p \in ScannedPairs(results) :
        p[1] \notin {Undefined, Empty} /\ p[2] \notin {Undefined, Empty}

\* C14: records are the same finding exactly when their identifier and
\* their package name are both equal: every distinct (identifier, package)
\* pair of a document keeps an entry of its own, and new, fixed and
\* unchanged are the pairs of the current document alone, of the baseline
\* alone, and of both.
C14_IdentityIsThePair ==
    (Compared /\ AllNamed(trivy_baseline_results) /\ AllNamed(trivy_image_results)) =>
        LET B == ScannedPairs(trivy_baseline_results)
            C == ScannedPairs(trivy_image_results)
        IN  /\ Pairs(Report.baseline) = B /\ Report.baseline.total = Cardinality(B)
            /\ Pairs(Report.current) = C /\ Report.current.total = Cardinality(C)
            /\ Pairs(Report.new) = C \ B
            /\ Pairs(Report.fixed) = B \ C
            /\ Pairs(Report.unchanged) = B \cap C

\* C15: a vulnerability scanned in the baseline and in the current image
\* with the same identifier and package is reported as unchanged, and
\* neither as new nor as fixed, whatever its installed version, fixed
\* version, severity, title and description are on either side.
C15_UnchangedByKeyOnly ==
    Compared =>
        \A i \in 1..Len(ScannedVulnerabilities(trivy_baseline_results)),
           j \in 1..Len(ScannedVulnerabilities(trivy_image_results)) :
            LET x == ScannedVulnerabilities(trivy_baseline_results)[i]
                y == ScannedVulnerabilities(trivy_image_results)[j]
            IN  (x.VulnerabilityID = y.VulnerabilityID /\ x.PkgName = y.PkgName) =>
                    /\ Processed(y).key \in Keys(Report.unchanged)
                    /\ Processed(y).key \notin Keys(Report.new)
                    /\ Processed(y).key \notin Keys(Report.fixed)

C15_Witness ==
    /\ Compared
    /\ \E b \in Records(Report.baseline), c \in Records(Report.unchanged) :
          /\ RecordKey(b) = RecordKey(c)
          /\ b.version # c.version /\ b.fixedVersion # c.fixedVersion
          /\ b.severity # c.severity /\ b.title # c.title
          /\ b.description # c.description

\* the section holds one record per key of the document, the one made from
\* the last vulnerability scanned under that key
LastOccurrenceKept(results, section) ==
    LET vs == ScannedVulnerabilities(results)
    IN  /\ section.total = Len(section.vulnerabilities)
        /\ \A i \in 1..Len(vs) :
              LET k == Processed(vs[i]).key
                  last == CHOOSE n \in i..Len(vs) :
                              /\ Processed(vs[n]).key = k
                              /\ \A m \in (n + 1)..Len(vs) : Processed(vs[m]).key # k
              IN  /\ Cardinality({n \in 1..Len(section.vulnerabilities) :
                                      RecordKey(section.vulnerabilities[n]) = k}) = 1
                  /\ Processed(vs[last]).value \in Records(section)

\* C16: a key that occurs several times in one scan document, in one
\* target or across targets, has exactly one record in the extracted set,
\* and that record is its last occurrence in document order.
C16_LastOccurrenceWins ==
    Compared =>
        /\ LastOccurrenceKept(trivy_baseline_results, Report.baseline)
        /\ LastOccurrenceKept(trivy_image_results, Report.current)

C16_Witness ==
    /\ Compared
    /\ Len(trivy_image_results.Results) = 3
    /\ LET vs == ScannedVulnerabilities(trivy_image_results)
       IN  /\ Len(vs) = 2
           /\ vs[1].VulnerabilityID = vs[2].VulnerabilityID
           /\ vs[1].PkgName = vs[2].PkgName
           /\ vs[1].InstalledVersion # vs[2].InstalledVersion
           /\ Report.current.total = 1
           /\ Report.current.vulnerabilities[1].version = vs[2].InstalledVersion

\* C17: when the baseline file is missing, the current file is missing, or
\* either is not JSON, the differ returns normally having written a report
\* with comparison_available false and a non-empty message; the baseline
\* is tested first, so with both files missing the message names it.
C17_UnavailableReport ==
    /\ differ_state \in {"pending", "returned"}
    /\ (differ_state = "returned"
        /\ (trivy_baseline_results.kind # "json" \/ trivy_image_results.kind # "json")) =>
          /\ trivy_comparison.written
          /\ ~Report.comparison_available
          /\ Report.message # ""
          /\ trivy_baseline_results.kind = "absent" =>
                Report.message = "Baseline scan results not available"

C17_Witness ==
    /\ differ_state = "returned"
    /\ trivy_baseline_results.kind = "absent"
    /\ trivy_image_results.kind = "absent"
    /\ Report.message = "Baseline scan results not available"

\* how many records of the section have a severity that folds into names
Tallied(section, names) ==
    Cardinality({i \in 1..Len(section.vulnerabilities) :
                    toLowerCase(section.vulnerabilities[i].severity) \in names})

KnownSeverities == {S_critical, S_high, S_medium, S_low}

\* C18: in the tally of each partition every record counts in exactly one
\* of critical, high, medium, low, unknown by its case-folded severity,
\* every severity other than the four known ones counts as unknown, and
\* total is the sum of the five buckets and the number of records.
C18_SeverityTally ==
    Compared =>
        \A section \in {Report.new, Report.fixed, Report.unchanged} :
            LET counts == section.counts
            IN  /\ counts.critical = Tallied(section, {S_critical})
                /\ counts.high = Tallied(section, {S_high})
                /\ counts.medium = Tallied(section, {S_medium})
                /\ counts.low = Tallied(section, {S_low})
                /\ counts.unknown = Len(section.vulnerabilities)
                                    - Tallied(section, KnownSeverities)
                /\ counts.total = counts.critical + counts.high + counts.medium
                                  + counts.low + counts.unknown
                /\ counts.total = Len(section.vulnerabilities)

\* C19: every degraded outcome fills every output: a report without a
\* comparison still has the baseline, current, new, fixed and unchanged
\* sections with their totals and counts, and the summarizer writes
\* trivy-scan-summary.json and sets its outputs on every path.
C19_DegradedOutputsComplete ==
    /\ (differ_state = "returned" /\ trivy_comparison.written) =>
          /\ {"baseline", "current", "new", "fixed", "unchanged"} \subseteq DOMAIN Report
          /\ \A s \in {"baseline", "current"} : "total" \in DOMAIN Report[s]
          /\ \A s \in {"new", "fixed", "unchanged"} :
                {"total", "counts"} \subseteq DOMAIN Report[s]
    /\ summarizer_state = "returned" =>
          /\ trivy_scan_summary.written
          /\ summary_outputs.set

----------------------------------------------------------------------------
(* Renderer properties.                                                    *)

\* the flow type the script that ran looked up
LookedUp ==
    IF renderer_script = "js" THEN buildFlowType_js(renderer_env)
    ELSE buildFlowType_ts(renderer_env)

\* C20: whatever flow type the renderer receives, one of the six
\* categories of the classifier or any other string, the metadata lookup
\* yields an entry with emoji, title and description, the wip entry when
\* the flow type has no entry of its own, and generating the comment never
\* fails on it.
C20_MetadataLookupDefined ==
    renderer_script # "none" =>
        /\ renderer_flow.kind = "entry"
        /\ LookedUp \notin FlowMetadataKeys => renderer_flow = flowMetadata(F_wip)
        /\ ~commentBody.threw

----------------------------------------------------------------------------
(* C21: classification is deterministic. Every invocation of the          *)
(* classifier on the same trigger event and configuration appends the same *)
(* block of outputs (flow category, tag list, short identifier, image      *)
(* names) as the first invocation did, and the finished invocation's flow, *)
(* tags and short identifier are those of the first block.                 *)
OutputBlock(i) == SubSeq(output, 5 * (i - 1) + 1, 5 * i)

C22_SummaryMatchesDiffer ==
    (Compared /\ summarizer_state = "returned" /\ trivy_scan_summary.written) =>
        LET summary == trivy_scan_summary.content
            new == Report.new.counts
            unchanged == Report.unchanged.counts
        IN  /\ summary.completed
            /\ summary.total = Report.current.total
            /\ summary.critical = new.critical + unchanged.critical
            /\ summary.high = new.high + unchanged.high
            /\ summary.medium = new.medium + unchanged.medium
            /\ summary.low = new.low + unchanged.low
            /\ summary.unknown = new.unknown + unchanged.unknown

----------------------------------------------------------------------------
(* Renderer properties.                                                    *)

\* a branch push: no pull request in the payload
IsBranchPush == context.eventName = "push" /\ context.pull_request = 0

\* C23 as stated: on a push event without a pull_request payload the
\* associated open pull request is resolved before the comment body is
\* rendered, so a rendered body is only seen once the lookup is over.
C23_ResolveBeforeRender ==
    (IsBranchPush /\ commentBody # NoBody) => renderer_pc \notin {"start", "resolve"}

\* C23 as amended: on a push event without a pull_request payload the
\* renderer renders the comment body first and then resolves the associated
\* open pull request, the first open one whose head is the pushed branch,
\* before it lists or posts comments.
C23_RenderBeforeResolve ==
    IsBranchPush =>
        /\ renderer_pc = "start" => commentBody = NoBody /\ prNumber = 0
        /\ renderer_pc = "resolve" => commentBody # NoBody /\ prNumber = 0
        /\ prNumber # 0 =>
              /\ commentBody # NoBody /\ ~commentBody.threw
              /\ Len(open_prs) > 0 /\ prNumber = open_prs[1]
        /\ renderer_pc \in {"list", "post"} => prNumber # 0
        /\ comment_posted = "true" => prNumber # 0 /\ renderer_pc = "done"

\* a push whose branch has an open pull request, commented on
C23_Witness ==
    /\ IsBranchPush
    /\ renderer_pc = "done"
    /\ open_prs = <<7, 8>>
    /\ prNumber = 7
    /\ comment_posted = "true"

\* C24: for every flow type the short-sha output is the short commit SHA,
\* the first 7 characters of the commit SHA (all of it when it is shorter),
\* and the first emitted tag carries it.
C24_ShortShaOutput ==
    pc = "done" =>
        /\ \E i \in 1..Len(output) : output[i][1] = "short-sha"
        /\ \A i \in 1..Len(output) :
              output[i][1] = "short-sha" => output[i][2] = FirstSeven(env.GITHUB_SHA)
        /\ \E n \in 0..Len(TagList[1]) :
              SubSeq(TagList[1], n + 1, Len(TagList[1]))
                  = FirstSeven(env.GITHUB_SHA) \o env.TAG_SUFFIX

\* the comments of the pull request that are the action's: a Bot's, with
\* the heading of the default template
ActionComments ==
    {i \in 1..Len(pr_comments) :
        pr_comments[i].user_type = "Bot" /\ IncludesMarker(pr_comments[i].body)}

DefaultTemplate == renderer_env.PR_COMMENT_TEMPLATE \in {Undefined, Empty}

\* C25: after any sequence of non-overlapping runs for the same pull
\* request with the default template and a Bot token, a run that posted
\* leaves the pull request with exactly one comment of the action: the
\* first run created it and every later run updated that comment.
C25_OneActionComment ==
    (token_user_type = "Bot" /\ DefaultTemplate
     /\ renderer_pc = "done" /\ comment_posted = "true") =>
        Cardinality(ActionComments) = 1

\* both runs have posted with a Bot token and the default template
BothPosted ==
    /\ token_user_type = "Bot" /\ DefaultTemplate
    /\ renderer_pc = "done" /\ comment_posted = "true"
    /\ renderer_pc_2 = "done" /\ comment_posted_2 = "true"

\* C26: two overlapping runs for the same pull request leave two comments
\* of the action exactly when both listed the comments before either had
\* created one (neither found a comment, so both created); when one run
\* lists after the other has created, it updates and one comment remains.
C26_OverlapDuplicates ==
    BothPosted =>
        /\ Cardinality(ActionComments) \in {1, 2}
        /\ Cardinality(ActionComments) = 2 <=> (botComment = 0 /\ botComment_2 = 0)

\* a pull request without comments on which both runs created one
C26_Witness ==
    /\ BothPosted
    /\ Len(pr_comments) = 2
    /\ Cardinality(ActionComments) = 2
    /\ botComment = 0 /\ botComment_2 = 0

----------------------------------------------------------------------------
(* Further comparison properties.                                          *)

\* the record the section holds under the key
RecordOf(section, key) == CHOOSE r \in Records(section) : RecordKey(r) = key

\* how many keys of the unchanged partition have, in the current scan, a
\* severity that folds into the name
CurrentlyTallied(name) ==
    Cardinality({k \in Keys(Report.unchanged) :
                    toLowerCase(RecordOf(Report.current, k).severity) = name})

\* C27: for every key present in both scans the record listed in unchanged
\* is the current scan's record; the records in new are records of the
\* current scan and the records in fixed are records of the baseline; and
\* the critical, high, medium and low counts of unchanged are tallied over
\* the current severities.
C27_UnchangedIsCurrent ==
    Compared =>
        /\ \A k \in Keys(Report.baseline) \cap Keys(Report.current) :
              /\ k \in Keys(Report.unchanged)
              /\ RecordOf(Report.unchanged, k) = RecordOf(Report.current, k)
        /\ Records(Report.unchanged) \subseteq Records(Report.current)
        /\ Records(Report.new) \subseteq Records(Report.current)
        /\ Records(Report.fixed) \subseteq Records(Report.baseline)
        /\ Report.unchanged.counts.critical = CurrentlyTallied(S_critical)
        /\ Report.unchanged.counts.high = CurrentlyTallied(S_high)
        /\ Report.unchanged.counts.medium = CurrentlyTallied(S_medium)
        /\ Report.unchanged.counts.low = CurrentlyTallied(S_low)

\* a finding whose severity went from critical to medium between the scans
C27_Witness ==
    /\ Compared
    /\ \E k \in Keys(Report.unchanged) :
          /\ toLowerCase(RecordOf(Report.baseline, k).severity) = S_critical
          /\ toLowerCase(RecordOf(Report.current, k).severity) = S_medium
          /\ RecordOf(Report.unchanged, k) # RecordOf(Report.baseline, k)
    /\ Report.unchanged.counts.medium = 1
    /\ Report.unchanged.counts.critical = 0

\* a parsed document without a Results list, or with targets none of which
\* has a Vulnerabilities list
ListsNoFindings(results) ==
    /\ results.kind = "json"
    /\ \/ ~results.hasResults
       \/ /\ Len(results.Results) > 0
          /\ \A i \in 1..Len(results.Results) : ~results.Results[i].hasVulnerabilities

\* C28: a present, parseable scan document without a Results list, or
\* whose targets have no Vulnerabilities list, is an empty vulnerability
\* set: the report is available, the document's section is empty, and
\* every record of the other side is new (empty baseline) or fixed (empty
\* current), none being unchanged.
C28_EmptyDocumentCompared ==
    /\ (differ_state = "returned" /\ ListsNoFindings(trivy_baseline_results)
        /\ trivy_image_results.kind = "json") =>
          /\ Compared
          /\ Report.baseline.total = 0 /\ Report.baseline.vulnerabilities = << >>
          /\ Report.new.vulnerabilities = Report.current.vulnerabilities
          /\ Report.new.total = Report.current.total
          /\ Report.fixed.total = 0 /\ Report.unchanged.total = 0
    /\ (differ_state = "returned" /\ ListsNoFindings(trivy_image_results)
        /\ trivy_baseline_results.kind = "json") =>
          /\ Compared
          /\ Report.current.total = 0 /\ Report.current.vulnerabilities = << >>
          /\ Report.fixed.vulnerabilities = Report.baseline.vulnerabilities
          /\ Report.fixed.total = Report.baseline.total
          /\ Report.new.total = 0 /\ Report.unchanged.total = 0

\* a baseline that is {} against a current scan with a finding, after a
\* target without a Vulnerabilities list
C28_Witness ==
    /\ Compared
    /\ trivy_baseline_results = NoResults
    /\ Len(trivy_image_results.Results) = 2
    /\ ~trivy_image_results.Results[1].hasVulnerabilities
    /\ Report.new.total = 1
    /\ Report.fixed.total = 0

----------------------------------------------------------------------------
(* Configuration corner cases.                                             *)

\* C29: when the main branch and the dev branch are configured to the same
\* name, a pull request targeting that branch is classified pr, whatever
\* its head, and a push to that branch is classified dev.
C29_SameBranchDevWins ==
    (pc = "done" /\ env.MAIN_BRANCH = env.DEV_BRANCH) =>
        /\ (IsPullRequestEvent(env) /\ env.GITHUB_BASE_REF = env.MAIN_BRANCH)
              => flow_type = "pr"
        /\ (env.GITHUB_EVENT_NAME = "push"
            /\ env.GITHUB_REF = RefsHeads \o env.MAIN_BRANCH)
              => flow_type = "dev"

\* a pull request from the branch to itself, which the main-branch test
\* would call dev
C29_Witness ==
    /\ pc = "done"
    /\ env.MAIN_BRANCH = env.DEV_BRANCH
    /\ IsPullRequestEvent(env)
    /\ env.GITHUB_BASE_REF = env.MAIN_BRANCH
    /\ env.GITHUB_HEAD_REF = env.DEV_BRANCH
    /\ flow_type = "pr"

----------------------------------------------------------------------------
(* The two differs side by side.                                           *)

\* C30: the hand-written differ and the TypeScript differ produce the same
\* report for every pair of input documents: whichever of the two has run,
\* the report in trivy-comparison.json is the one the other script writes
\* for the same two files (same keys, partitions, counts and totals).
C30_DiffersAgree ==
    differ_state = "returned" =>
        /\ trivy_comparison.written
        /\ differ_script = "ts" =>
              Report = generateComparison_js(trivy_baseline_results, trivy_image_results)
        /\ differ_script = "js" =>
              Report = generateComparison_ts(trivy_baseline_results, trivy_image_results)

====
